---- MODULE Spec2Model ----
(***************************************************************************)
(* Task Pulse client: the auth provider, the router, the pages' loaders    *)
(* and handlers, and the HTTP calls of the task service, as one state      *)
(* machine.  Every async handler is split at its awaits: the part before   *)
(* an await is one action, the part run when the response arrives is the   *)
(* next one.  A handler keeps running after its page was unmounted; its    *)
(* setState calls are then no-ops, its navigate and API calls are not.     *)
(***************************************************************************)
EXTENDS Integers, FiniteSets, Sequences, TLC

VARIABLES
  user,             \* AuthProvider: cached identity {id, email, role} or none
  isAuthenticated,  \* AuthProvider: flag
  storage,          \* localStorage: 'user' and 'access_token'
  route,            \* router: current location
  page,             \* the page component mounted for the route, "none" between
  ui,               \* useState of the mounted page
  loginPc,          \* LoginPage.handleSubmit: idle or awaiting its response
  logoutPc,         \* LogOut.handleSubmit / AuthProvider.logout
  call,             \* the page handler that awaits a response, and its closure
  session,          \* server: the account the client's credential resolves to, or none
  srvTasks,         \* server: status of every task
  shownFor,         \* login page: error shown, per kind of failed attempt
  last              \* the last step: handler, status handled, request sent

vars == <<user, isAuthenticated, storage, route, page, ui, loginPc, logoutPc, call,
          session, srvTasks, shownFor, last>>

\* ------------------------------------------------------------------ bounds
NumTasks == 1
NumUsers == 2

TaskIds == 1..NumTasks
UserIds == 1..NumUsers

\* ------------------------------------------------------------ JS values
NullId == 0          \* null / undefined / '' where an id is expected
NaN == -1            \* parseInt of a value that is no number

NoUser == [present |-> FALSE, id |-> NullId, email |-> "none", role |-> "none"]

Identity(i, e, r) == [present |-> TRUE, id |-> i, email |-> e, role |-> r]

Status == {"pending", "in_progress", "completed"}

NoTasks == [t \in {} |-> "pending"]

\* parseInt(x): a number stays, null/undefined/'' give NaN
ParseInt(x) == IF x = NullId \/ x = NaN THEN NaN ELSE x

\* a || b on ids: NaN, null, undefined, 0 and '' are falsy
OrElse(a, b) == IF a = NullId \/ a = NaN THEN b ELSE a

\* ------------------------------------------------------------ the server
\* The accounts: the last user id is the admin.
RoleOf(i) == IF i = NumUsers THEN "admin" ELSE "user"

EmailOf(i) == IF i = NumUsers THEN "admin@x" ELSE "user@x"

TokenOf(i) == IF i = NumUsers THEN "tokA" ELSE "tokU"

\* the server accepts the credential the client holds (cookie or bearer token)
credValid == session # NullId

\* What an authenticated endpoint answers to a request sent with credential
\* `cred`: 401 without a valid credential, else success or a server error, or 401
\* when the credential stopped being the accepted one before the request was served.
Answer(cred) ==
  IF cred = NullId THEN {401}
  ELSE {200, 500} \cup (IF session # cred THEN {401} ELSE {})

\* ------------------------------------------------------------- the router
Routes == {"/", "/login", "/signup", "/dashboard", "/tasks", "/newtask",
           "/task/:id", "/task/:id/edit", "/admin", "/admin/dashboard",
           "/admin/tasks", "/logout", "/unknown"}

ProtectedRoutes == {"/dashboard", "/tasks", "/newtask", "/task/:id",
                    "/task/:id/edit", "/admin", "/admin/dashboard", "/admin/tasks"}

ProtectedPages == {"DashboardPage", "TasksPage", "CreateTaskPage", "TaskDetails",
                   "AdminDashboard", "AdminTaskList"}

AdminPages == {"AdminDashboard", "AdminTaskList"}

Show(p) == [kind |-> "page", to |-> p]

Navigate(r) == [kind |-> "redirect", to |-> r]

ProtectedRouteShowsChildren(children, allowedRoles, a, u) == Show(children)

\* <ProtectedRoute allowedRoles=...>children</ProtectedRoute>
ProtectedRouteNoAuthCheck(children, allowedRoles, a, u) ==
  IF allowedRoles # {} /\ u.role \notin allowedRoles
    THEN Navigate("/dashboard")
    ELSE Show(children)

ProtectedRoute(children, allowedRoles, a, u) ==
  IF ~a THEN Navigate("/login")
  ELSE IF allowedRoles # {} /\ u.role \notin allowedRoles
    THEN Navigate("/dashboard")
    ELSE Show(children)

AdminRoute(children, a, u) == ProtectedRoute(children, {"admin"}, a, u)

\* the dashboard of the cached role
HomeOfIgnoresRole(u) == "/dashboard"

HomeOf(u) == IF u.role = "admin" THEN "/admin/dashboard" ELSE "/dashboard"

\* <Routes>: the element the route renders under auth state (a, u)
Render(r, a, u) ==
  CASE r = "/"                -> IF a THEN Navigate(HomeOf(u)) ELSE Show("HomePage")
    [] r = "/login"           -> IF a THEN Navigate(HomeOf(u)) ELSE Show("LoginPage")
    [] r = "/dashboard"       -> ProtectedRoute("DashboardPage", {}, a, u)
    [] r = "/tasks"           -> ProtectedRoute("TasksPage", {}, a, u)
    [] r = "/newtask"         -> ProtectedRoute("CreateTaskPage", {}, a, u)
    [] r = "/task/:id"        -> ProtectedRoute("TaskDetails", {}, a, u)
    [] r = "/task/:id/edit"   -> ProtectedRoute("CreateTaskPage", {}, a, u)
    [] r = "/signup"          -> IF ~a THEN Show("SignUp") ELSE Navigate("/dashboard")
    [] r = "/admin"           -> AdminRoute("AdminDashboard", a, u)
    [] r = "/admin/dashboard" -> AdminRoute("AdminDashboard", a, u)
    [] r = "/admin/tasks"     -> AdminRoute("AdminTaskList", a, u)
    [] r = "/logout"          -> Show("LogOut")
    [] OTHER                  -> IF a THEN Navigate(HomeOf(u)) ELSE Navigate("/login")

\* The page that stays mounted when route and auth state become (r, a, u):
\* the same one if the same route still renders it, else none until it mounts.
KeepPage(r, a, u) ==
  IF r = route /\ Render(r, a, u) = Show(page) THEN page ELSE "none"

\* --------------------------------------------------- component state (useState)
LoginInit == [isLoading |-> FALSE, error |-> ""]

DashInit == [loading |-> TRUE, dashboardData |-> "null", tasks |-> NoTasks, error |-> ""]

TasksInit == [loading |-> TRUE, tasks |-> NoTasks, error |-> "", listed |-> "none"]

AdminDashInit == [isLoading |-> TRUE, dashboardData |-> "null"]

\* the counters of the structure DashboardPage sets when getUserDashboard failed
UserDefaultData ==
  [total_tasks |-> 0, completed_tasks |-> 0, pending_tasks |-> 0, in_progress_tasks |-> 0]

\* the counters of the structure AdminDashboard sets when getAdminDashboard failed
AdminDefaultData ==
  [total_users |-> 0, total_tasks |-> 0, active_tasks |-> 0, completed_tasks |-> 0,
   overdue_tasks |-> 0, total_hours_logged |-> 0,
   users_by_role_admin |-> 1, users_by_role_user |-> 0,
   tasks_by_status_pending |-> 0, tasks_by_status_in_progress |-> 0,
   tasks_by_status_completed |-> 0,
   tasks_by_priority_low |-> 0, tasks_by_priority_medium |-> 0,
   tasks_by_priority_high |-> 0]

\* the counters the page renders from: dashboardData "default" is the structure above
FallbackCounters(p) == IF p = "AdminDashboard" THEN AdminDefaultData ELSE UserDefaultData

AdminListInit == [loading |-> TRUE, tasks |-> NoTasks, error |-> "", listed |-> "none"]

DetailsInit == [task |-> "null", error |-> ""]

CreateInit == [title |-> "", assigneeId |-> NullId, chosen |-> FALSE,
               error |-> "", loading |-> FALSE]

ModalInit == [show |-> FALSE, title |-> "", assignee_id |-> NullId, chosen |-> FALSE,
              error |-> "", loading |-> FALSE]

UiInit == [lp |-> LoginInit, dash |-> DashInit, tp |-> TasksInit, ad |-> AdminDashInit,
           atl |-> AdminListInit, td |-> DetailsInit, cp |-> CreateInit,
           modal |-> ModalInit]

\* The component state after a step: a page that is no longer mounted loses
\* its state (setState on it is a no-op), the mounted one keeps what `u2` holds.
Settle(p2, u2) ==
  [lp    |-> IF p2 = "LoginPage" THEN u2.lp ELSE LoginInit,
   dash  |-> IF p2 = "DashboardPage" THEN u2.dash ELSE DashInit,
   tp    |-> IF p2 = "TasksPage" THEN u2.tp ELSE TasksInit,
   ad    |-> IF p2 = "AdminDashboard" THEN u2.ad ELSE AdminDashInit,
   atl   |-> IF p2 = "AdminTaskList" THEN u2.atl ELSE AdminListInit,
   td    |-> IF p2 = "TaskDetails" THEN u2.td ELSE DetailsInit,
   cp    |-> IF p2 = "CreateTaskPage" THEN u2.cp ELSE CreateInit,
   modal |-> IF p2 \in {"DashboardPage", "AdminDashboard"} THEN u2.modal ELSE ModalInit]

\* ------------------------------------------------------------ observations
NoReq == [ep |-> "none", auth |-> FALSE, role |-> "none", token |-> "none"]

\* a request sent now: axios attaches the stored token (request interceptor)
Send(ep) == [ep |-> ep, auth |-> isAuthenticated, role |-> user.role,
             token |-> storage.access_token]

NoCreate == [via |-> "none", assignee_id |-> NullId, chosen |-> FALSE,
             creator |-> NullId, title |-> ""]

\* a step that sends nothing; one that sends a request; one that posts a task
Quiet(op, st) == [op |-> op, status |-> st, req |-> NoReq, body |-> NoCreate]

Sent(op, st, ep) == [op |-> op, status |-> st, req |-> Send(ep), body |-> NoCreate]

Posted(op, ep, b) == [op |-> op, status |-> 0, req |-> Send(ep), body |-> b]

AdminEndpoints == {"GET /admin/dashboard", "POST /admin/task", "GET /admin/tasks"}

TaskEndpoints == {"GET /task/assignee/tasks", "GET /task/:id", "POST /task/",
                  "POST /admin/task", "PUT /task/status/:id", "GET /dashboard",
                  "GET /admin/dashboard", "GET /admin/tasks"}

EmptyStorage == [user |-> NoUser, access_token |-> "none"]

\* no page handler awaits a response
NoCall == [at |-> "idle", cred |-> NullId, host |-> "none", taskId |-> 0,
           newStatus |-> "pending", tasks |-> NoTasks]

\* a request was sent with the credential held now; its handler awaits the answer
Await(at) == [NoCall EXCEPT !.at = at, !.cred = session]

\* the awaits whose continuation only sets state of its own page
SetStateOnly == {"TasksLoaded:admin", "TasksLoaded:assignee", "AdminDashboardLoaded",
                 "AdminTaskListLoaded", "TaskDetailsLoaded"}

\* The awaited call once the mounted page is p2: a continuation that only sets
\* state of a page that is gone does nothing and is not followed further.
Pending(p2) ==
  IF p2 # "none" THEN call
  ELSE IF call.at \in SetStateOnly THEN NoCall
  ELSE [call EXCEPT !.tasks = NoTasks]

\* ------------------------------------------------------------------- Init
StoredSessions ==
  {EmptyStorage} \cup
  {[user |-> Identity(i, EmailOf(i), RoleOf(i)), access_token |-> TokenOf(i)] : i \in UserIds}

\* AuthProvider's useState initialisers read localStorage
Init ==
  /\ storage \in StoredSessions
  /\ user = storage.user
  /\ isAuthenticated = storage.user.present
  /\ route = "/"
  /\ page = "none"
  /\ ui = UiInit
  /\ loginPc = "idle"
  /\ logoutPc = "idle"
  /\ call = NoCall
  /\ session \in {storage.user.id, NullId}
  /\ srvTasks = [t \in TaskIds |-> "pending"]
  /\ shownFor = [k \in {"wrong_password", "unknown_email"} |-> "unset"]
  /\ last = Quiet("init", 0)

ServerSame == UNCHANGED <<session, srvTasks>>

AuthSame == UNCHANGED <<user, isAuthenticated, storage>>

\* the login errors seen are those of the login page now on screen
Seen(p2, sf) == IF p2 = "LoginPage" THEN sf ELSE [k \in DOMAIN sf |-> "unset"]

\* A step that changes neither the route nor the auth state: the mounted page
\* stays, its state becomes u2.
Stay(u2) ==
  /\ UNCHANGED <<route, page, user, isAuthenticated, storage, shownFor>>
  /\ ui' = Settle(page, u2)

\* navigate(r) called by a handler: the route changes, the page it leaves is
\* unmounted, u2 is the component state the handler set before.
GoTo(r, u2) ==
  /\ route' = r
  /\ page' = KeepPage(r, isAuthenticated, user)
  /\ ui' = Settle(page', u2)
  /\ shownFor' = Seen(page', shownFor)
  /\ AuthSame

\* the page p is mounted by this step, with component state u2
Mounts(p, u2) ==
  /\ page' = p
  /\ ui' = Settle(p, u2)
  /\ UNCHANGED <<route, shownFor>>
  /\ AuthSame

\* the element of the route is the page p and it is not mounted yet
Renders(p) ==
  /\ page = "none"
  /\ Render(route, isAuthenticated, user) = Show(p)

\* ------------------------------------------------------ router and browser
\* The user follows a link or the browser history to another route.
Visit(r) ==
  /\ r \in Routes /\ r # route
  /\ GoTo(r, ui)
  /\ call' = Pending(page')
  /\ last' = Quiet("Visit", 0)
  /\ ServerSame
  /\ UNCHANGED <<loginPc, logoutPc>>

\* <Navigate to=... replace />: the element rendered for the route is a redirect
Redirect ==
  /\ page = "none"
  /\ Render(route, isAuthenticated, user).kind = "redirect"
  /\ GoTo(Render(route, isAuthenticated, user).to, ui)
  /\ last' = Quiet("Redirect", 0)
  /\ ServerSame
  /\ UNCHANGED <<loginPc, logoutPc, call>>

\* The server stops accepting the credential (token or cookie expiry).
Expire ==
  /\ credValid
  /\ session' = NullId
  /\ last' = Quiet("Expire", 0)
  /\ Stay(ui)
  /\ UNCHANGED <<srvTasks, loginPc, logoutPc, call>>

\* Pages without a loading effect: HomePage, LoginPage, SignUp, LogOut.
MountPlain ==
  /\ \E p \in {"HomePage", "LoginPage", "SignUp", "LogOut"} :
       Renders(p) /\ Mounts(p, ui)
  /\ loginPc = "idle"
  /\ last' = Quiet("Mount", 0)
  /\ ServerSame
  /\ UNCHANGED <<loginPc, logoutPc, call>>

\* ------------------------------------------------------------ AuthProvider
\* login(token, userData): what localStorage holds afterwards
LoginStorage(token, userData) ==
  [access_token |-> IF token # "none" THEN token ELSE storage.access_token,
   user |-> IF userData.present THEN userData ELSE storage.user]

\* login(token, userData): the user state afterwards
LoginUser(userData) == IF userData.present THEN userData ELSE user

\* --------------------------------------------------------------- LoginPage
AttemptKinds == {"valid", "wrong_password", "unknown_email"}

FailStatuses == {401, 404, 422}

Details == {"none", "User not found"}

Shapes == {"nested", "flat", "token_only"}

\* err.message of axios
AxiosMessage(status) ==
  IF status = 404 THEN "Request failed with status code 404"
  ELSE IF status = 401 THEN "Request failed with status code 401"
  ELSE "Request failed with status code 422"

\* the catch branch of handleSubmit
LoginErrorMessage(status, detail) ==
  IF status = 401 THEN "Invalid email or password."
  ELSE IF status = 422 THEN "Please check your input format."
  ELSE IF detail # "none" THEN detail
  ELSE AxiosMessage(status)

\* userData built from the login response for account i
UserData(shape, i) ==
  IF shape \in {"nested", "flat"}
    THEN Identity(i, EmailOf(i), RoleOf(i))
    ELSE Identity(NullId, EmailOf(i), "user")

LoginSubmit(k) ==
  /\ page = "LoginPage" /\ ~ui.lp.isLoading /\ loginPc = "idle"
  /\ logoutPc = "idle"
  /\ k \in AttemptKinds
  /\ loginPc' = k
  /\ Stay([ui EXCEPT !.lp = [isLoading |-> TRUE, error |-> ""]])
  /\ last' = Sent("LoginSubmit", 0, "POST /login/token")
  /\ ServerSame
  /\ UNCHANGED <<logoutPc, call>>

\* status 200 with data: login(accessToken, userData), then navigate by role
LoginOk(i, shape, hasToken) ==
  /\ loginPc = "valid"
  /\ i \in UserIds /\ shape \in Shapes /\ hasToken \in BOOLEAN
  /\ LET userData == UserData(shape, i)
         token == IF hasToken THEN TokenOf(i) ELSE "none"
         u2 == LoginUser(userData)
         r2 == IF userData.role = "admin" THEN "/admin/dashboard" ELSE "/dashboard"
     IN  /\ storage' = LoginStorage(token, userData)
         /\ user' = u2
         /\ isAuthenticated' = TRUE
         /\ route' = r2
         /\ page' = KeepPage(r2, TRUE, u2)
         /\ ui' = Settle(page', [ui EXCEPT !.lp.isLoading = FALSE])
         /\ shownFor' = Seen(page', shownFor)
         /\ last' = Quiet(IF shape = "token_only" THEN "LoginOk:fallback" ELSE "LoginOk",
                          200)
  /\ loginPc' = "idle"
  /\ session' = i
  /\ UNCHANGED <<srvTasks, logoutPc, call>>

\* status 200 without data: the else branch
LoginNoData ==
  /\ loginPc = "valid"
  /\ loginPc' = "idle"
  /\ Stay([ui EXCEPT !.lp = [isLoading |-> FALSE,
                             error |-> "Login failed. Please check your credentials."]])
  /\ last' = Quiet("LoginNoData", 200)
  /\ ServerSame
  /\ UNCHANGED <<logoutPc, call>>

\* the request is rejected: the catch branch
LoginFail(status, detail) ==
  /\ loginPc # "idle"
  /\ status \in FailStatuses /\ detail \in Details
  /\ loginPc' = "idle"
  /\ UNCHANGED <<route, page, user, isAuthenticated, storage>>
  /\ ui' = Settle(page, [ui EXCEPT !.lp = [isLoading |-> FALSE,
                                           error |-> LoginErrorMessage(status, detail)]])
  /\ shownFor' = IF page = "LoginPage" /\ loginPc \in DOMAIN shownFor
                   THEN [shownFor EXCEPT ![loginPc] = LoginErrorMessage(status, detail)]
                   ELSE shownFor
  /\ last' = Quiet("LoginFail", status)
  /\ ServerSame
  /\ UNCHANGED <<logoutPc, call>>

\* ------------------------------------------------------- logout and LogOut
\* LogOut.handleSubmit: await logout(); the request of logoutUser is sent.
\* The button is in the header of every authenticated view and on /logout.
LogoutStart ==
  /\ isAuthenticated \/ page = "LogOut"
  /\ logoutPc = "idle"
  /\ logoutPc' = IF isAuthenticated THEN "await" ELSE "awaitNoSession"
  /\ Stay(ui)
  /\ last' = Sent("LogoutStart", 0, "POST /login/logout")
  /\ ServerSame
  /\ UNCHANGED <<loginPc, call>>

\* logout(): the user state after the request settled (ok or rejected)
LogoutUserOnlyOnSuccess(ok) == IF ok THEN NoUser ELSE user

LogoutUser(ok) == NoUser

\* the logout request settles; the finally block clears; navigate('/login')
LogoutFinish(ok) ==
  /\ logoutPc # "idle"
  /\ ok \in BOOLEAN
  /\ logoutPc' = "idle"
  /\ user' = LogoutUser(ok)
  /\ isAuthenticated' = FALSE
  /\ storage' = EmptyStorage
  /\ route' = "/login"
  /\ page' = KeepPage("/login", FALSE, LogoutUser(ok))
  /\ ui' = Settle(page', ui)
  /\ shownFor' = Seen(page', shownFor)
  /\ session' = IF ok THEN NullId ELSE session
  /\ last' = Quiet(IF logoutPc = "await" THEN "LogoutFinish" ELSE "LogoutFinish:noSession",
                   IF ok THEN 200 ELSE 500)
  /\ call' = Pending(page')
  /\ UNCHANGED <<srvTasks, loginPc>>

\* ------------------------------------------------------------ TaskService
\* the names the service module exports
TaskServiceExports ==
  {"getAllTask", "createTask", "createAdminTask", "deleteTask", "updateTask",
   "updateTaskStatus", "getTask", "getTaskDetails", "getUserDashboard",
   "getAdminDashboard", "getAllUsers", "allAssignees", "changeAssignee",
   "updateTaskTitle", "getUserProfile", "createSubtask", "startTimeLog",
   "stopTimeLog", "addTaskComment", "loginUser", "registerUser", "SignUpUser",
   "logoutUser"}

\* ----------------------------------------------------------- DashboardPage
\* mount and the effect: fetchDashboardData up to its first await
DashboardMount ==
  /\ Renders("DashboardPage")
  /\ call = NoCall
  /\ IF ~isAuthenticated
       THEN /\ GoTo("/login", ui)
            /\ last' = Quiet("DashboardMount", 0)
            /\ UNCHANGED call
       ELSE /\ Mounts("DashboardPage", ui)
            /\ call' = Await("DashboardStats")
            /\ last' = Sent("DashboardMount", 0, "GET /dashboard")
  /\ ServerSame
  /\ UNCHANGED <<loginPc, logoutPc>>

\* getUserDashboard settles; the inner catch sets the default data; getAllTask is sent
DashboardStats(status) ==
  /\ call.at = "DashboardStats"
  /\ status \in Answer(call.cred)
  /\ call' = Await("DashboardTasks")
  /\ Stay([ui EXCEPT !.dash.dashboardData = IF status = 200 THEN "server" ELSE "default"])
  /\ last' = Sent("DashboardStats", status, "GET /task/assignee/tasks")
  /\ ServerSame
  /\ UNCHANGED <<loginPc, logoutPc>>

\* getAllTask settles: the list, or on 401 navigate('/login'), else an empty list
DashboardTasks(status) ==
  /\ call.at = "DashboardTasks"
  /\ status \in Answer(call.cred)
  /\ call' = NoCall
  /\ IF status = 401
       THEN GoTo("/login", [ui EXCEPT !.dash.loading = FALSE])
       ELSE Stay([ui EXCEPT !.dash.loading = FALSE,
                            !.dash.tasks = IF status = 200 THEN srvTasks ELSE NoTasks])
  /\ last' = Quiet("DashboardTasks", status)
  /\ ServerSame
  /\ UNCHANGED <<loginPc, logoutPc>>

\* fetchTasks, called by the modal's onTaskCreated, settles
DashboardRefresh(status) ==
  /\ call.at = "DashboardRefresh"
  /\ status \in Answer(call.cred)
  /\ call' = NoCall
  /\ IF status = 401
       THEN GoTo("/login", ui)
       ELSE Stay(IF status = 200 THEN [ui EXCEPT !.dash.tasks = srvTasks] ELSE ui)
  /\ last' = Quiet("DashboardRefresh", status)
  /\ ServerSame
  /\ UNCHANGED <<loginPc, logoutPc>>

\* --------------------------------------------------------------- TasksPage
\* the listing call fetchTasks makes for the cached role
TasksPageListing(role) == IF role = "admin" THEN "getAllTasksAdmin" ELSE "getAllTask"

\* mount and the effect: fetchTasks up to its await; calling a name the service
\* does not export throws, which the catch turns into the error message
TasksMount ==
  /\ Renders("TasksPage")
  /\ call = NoCall
  /\ IF ~isAuthenticated
       THEN /\ GoTo("/login", ui)
            /\ last' = Quiet("TasksMount", 0)
            /\ UNCHANGED call
       ELSE IF TasksPageListing(user.role) \in TaskServiceExports
         THEN /\ Mounts("TasksPage", ui)
              /\ call' = Await(IF TasksPageListing(user.role) = "getAllTasksAdmin"
                                 THEN "TasksLoaded:admin" ELSE "TasksLoaded:assignee")
              /\ last' = Sent("TasksMount", 0,
                              IF TasksPageListing(user.role) = "getAllTasksAdmin"
                                THEN "GET /admin/tasks" ELSE "GET /task/assignee/tasks")
         ELSE /\ Mounts("TasksPage",
                   [ui EXCEPT !.tp = [loading |-> FALSE, tasks |-> NoTasks,
                        error |-> "Failed to load tasks: getAllTasksAdmin is not a function",
                        listed |-> "none"]])
              /\ last' = Quiet("TasksMount:threw", 0)
              /\ UNCHANGED call
  /\ ServerSame
  /\ UNCHANGED <<loginPc, logoutPc>>

\* the listing settles: the list, or the inline error for every failure
TasksLoaded(status) ==
  /\ call.at \in {"TasksLoaded:admin", "TasksLoaded:assignee"}
  /\ status \in Answer(call.cred)
  /\ call' = NoCall
  /\ Stay(IF status = 200
            THEN [ui EXCEPT !.tp.loading = FALSE, !.tp.tasks = srvTasks,
                            !.tp.listed = IF call.at = "TasksLoaded:admin"
                                            THEN "admin" ELSE "assignee"]
            ELSE [ui EXCEPT !.tp.loading = FALSE,
                            !.tp.error = "Failed to load tasks: Request failed"])
  /\ last' = Quiet("TasksLoaded", status)
  /\ ServerSame
  /\ UNCHANGED <<loginPc, logoutPc>>

\* handleStatusChange up to its await; rows exist for tasks that are not completed
StatusChange(taskId, newStatus) ==
  /\ page = "TasksPage" /\ ~ui.tp.loading /\ call = NoCall
  /\ taskId \in DOMAIN ui.tp.tasks /\ newStatus \in Status
  /\ ui.tp.tasks[taskId] # "completed"
  /\ newStatus # ui.tp.tasks[taskId]
  /\ call' = [at |-> "StatusChanged", cred |-> session, host |-> page, taskId |-> taskId,
              newStatus |-> newStatus, tasks |-> ui.tp.tasks]
  /\ Stay([ui EXCEPT !.tp.loading = TRUE])
  /\ last' = Sent("StatusChange", 0, "PUT /task/status/:id")
  /\ ServerSame
  /\ UNCHANGED <<loginPc, logoutPc>>

\* the component state handleStatusChange leaves when the request was rejected
StatusChangeFailed(tp) == [tp EXCEPT !.error = "Failed to update task status"]

\* updateTaskStatus settles
StatusChanged(status) ==
  /\ call.at = "StatusChanged"
  /\ status \in Answer(call.cred)
  /\ call' = NoCall
  /\ srvTasks' = IF status = 200
                   THEN [srvTasks EXCEPT ![call.taskId] = call.newStatus]
                   ELSE srvTasks
  /\ Stay(IF status = 200
            THEN [ui EXCEPT !.tp.loading = FALSE,
                            !.tp.tasks = [t \in DOMAIN call.tasks |->
                                            IF t = call.taskId THEN call.newStatus
                                            ELSE call.tasks[t]]]
            ELSE [ui EXCEPT !.tp = StatusChangeFailed(ui.tp)])
  /\ last' = Quiet("StatusChanged", status)
  /\ UNCHANGED <<session, loginPc, logoutPc>>

\* ---------------------------------------------------------- AdminDashboard
\* mount and the effect; fetchDashboardData up to its await
AdminDashboardMount ==
  /\ Renders("AdminDashboard")
  /\ call = NoCall
  /\ IF ~isAuthenticated \/ ~user.present \/ user.role # "admin"
       THEN /\ GoTo("/login", ui)
            /\ last' = Quiet("AdminDashboardMount", 0)
            /\ UNCHANGED call
       ELSE /\ Mounts("AdminDashboard", ui)
            /\ call' = Await("AdminDashboardLoaded")
            /\ last' = Sent("AdminDashboardMount", 0, "GET /admin/dashboard")
  /\ ServerSame
  /\ UNCHANGED <<loginPc, logoutPc>>

\* getAdminDashboard settles: the data, or the default structure for every failure
AdminDashboardLoaded(status) ==
  /\ call.at = "AdminDashboardLoaded"
  /\ status \in Answer(call.cred)
  /\ call' = NoCall
  /\ Stay([ui EXCEPT !.ad = [isLoading |-> FALSE,
                             dashboardData |-> IF status = 200 THEN "server" ELSE "default"]])
  /\ last' = Quiet("AdminDashboardLoaded", status)
  /\ ServerSame
  /\ UNCHANGED <<loginPc, logoutPc>>

\* ----------------------------------------------------------- AdminTaskList
\* mount and the effect: fetchTasks calls getAllTask()
AdminTaskListMount ==
  /\ Renders("AdminTaskList")
  /\ call = NoCall
  /\ IF ~isAuthenticated \/ ~user.present \/ user.role # "admin"
       THEN /\ GoTo("/login", ui)
            /\ last' = Quiet("AdminTaskListMount", 0)
            /\ UNCHANGED call
       ELSE /\ Mounts("AdminTaskList", ui)
            /\ call' = Await("AdminTaskListLoaded")
            /\ last' = Sent("AdminTaskListMount", 0, "GET /task/assignee/tasks")
  /\ ServerSame
  /\ UNCHANGED <<loginPc, logoutPc>>

AdminTaskListLoaded(status) ==
  /\ call.at = "AdminTaskListLoaded"
  /\ status \in Answer(call.cred)
  /\ call' = NoCall
  /\ Stay(IF status = 200
            THEN [ui EXCEPT !.atl.loading = FALSE, !.atl.tasks = srvTasks,
                            !.atl.listed = "assignee"]
            ELSE [ui EXCEPT !.atl.loading = FALSE, !.atl.error = "Failed to load tasks"])
  /\ last' = Quiet("AdminTaskListLoaded", status)
  /\ ServerSame
  /\ UNCHANGED <<loginPc, logoutPc>>

\* ------------------------------------------------------------- TaskDetails
\* mount and the effect: if (isAuthenticated) fetchTask()
TaskDetailsMount ==
  /\ Renders("TaskDetails")
  /\ call = NoCall
  /\ Mounts("TaskDetails", ui)
  /\ IF isAuthenticated
       THEN /\ call' = Await("TaskDetailsLoaded")
            /\ last' = Sent("TaskDetailsMount", 0, "GET /task/:id")
       ELSE /\ last' = Quiet("TaskDetailsMount", 0)
            /\ UNCHANGED call
  /\ ServerSame
  /\ UNCHANGED <<loginPc, logoutPc>>

TaskDetailsLoaded(status) ==
  /\ call.at = "TaskDetailsLoaded"
  /\ status \in Answer(call.cred)
  /\ call' = NoCall
  /\ Stay(IF status = 200
            THEN [ui EXCEPT !.td.task = "loaded"]
            ELSE [ui EXCEPT !.td.error = "Failed to load task details."])
  /\ last' = Quiet("TaskDetailsLoaded", status)
  /\ ServerSame
  /\ UNCHANGED <<loginPc, logoutPc>>

\* ---------------------------------------------------- creating a task
Titles == {"", "Fix bug"}

\* The body createTask / createAdminTask post: assignee_id: parseInt(task.assignee_id).
\* creator is the account the server resolves the caller to.
CreateBody(via, assignee, chosen, title) ==
  [via |-> via, assignee_id |-> ParseInt(assignee), chosen |-> chosen,
   creator |-> session, title |-> title]

\* ---------------------------------------------------------- CreateTaskPage
\* mount and the effect: the current user becomes the default assignee
CreateMount ==
  /\ Renders("CreateTaskPage")
  /\ call = NoCall
  /\ Mounts("CreateTaskPage",
            [ui EXCEPT !.cp.assigneeId = IF user.present THEN user.id ELSE NullId])
  /\ last' = Quiet("CreateMount", 0)
  /\ ServerSame
  /\ UNCHANGED <<loginPc, logoutPc, call>>

CreateSetTitle(t) ==
  /\ page = "CreateTaskPage" /\ t \in Titles /\ t # ui.cp.title
  /\ Stay([ui EXCEPT !.cp.title = t])
  /\ last' = Quiet("CreateSetTitle", 0)
  /\ ServerSame
  /\ UNCHANGED <<loginPc, logoutPc, call>>

\* the primary-assignee select: onChange sets assigneeId
CreateChoose(a) ==
  /\ page = "CreateTaskPage" /\ a \in UserIds /\ ~ui.cp.chosen
  /\ Stay([ui EXCEPT !.cp.assigneeId = a, !.cp.chosen = TRUE])
  /\ last' = Quiet("CreateChoose", 0)
  /\ ServerSame
  /\ UNCHANGED <<loginPc, logoutPc, call>>

\* handleSubmit up to its await; the title input is required, the button is
\* disabled while loading
CreateSubmit ==
  /\ page = "CreateTaskPage" /\ ~ui.cp.loading /\ call = NoCall
  /\ ui.cp.title # ""
  /\ IF ~isAuthenticated
       THEN /\ GoTo("/login", [ui EXCEPT !.cp.error = "Log in again please"])
            /\ last' = Quiet("CreateSubmit", 0)
            /\ UNCHANGED call
       ELSE /\ Stay([ui EXCEPT !.cp.loading = TRUE, !.cp.error = ""])
            /\ call' = Await("CreateDone")
            /\ last' = Posted("CreateSubmit", "POST /task/",
                         CreateBody("page", OrElse(ui.cp.assigneeId, user.id),
                                    ui.cp.chosen, ui.cp.title))
  /\ ServerSame
  /\ UNCHANGED <<loginPc, logoutPc>>

\* createTask settles: navigate('/dashboard'), or the error
CreateDone(status) ==
  /\ call.at = "CreateDone"
  /\ status \in Answer(call.cred)
  /\ call' = NoCall
  /\ IF status = 200
       THEN GoTo("/dashboard", [ui EXCEPT !.cp.loading = FALSE])
       ELSE Stay([ui EXCEPT !.cp.loading = FALSE,
                            !.cp.error = "Failed to create task. Please try again."])
  /\ last' = Quiet("CreateDone", status)
  /\ ServerSame
  /\ UNCHANGED <<loginPc, logoutPc>>

\* --------------------------------------------------------- CreateTaskModal
\* the dashboards render the modal once their first load is over
HostReady ==
  \/ page = "DashboardPage" /\ ~ui.dash.loading
  \/ page = "AdminDashboard" /\ ~ui.ad.isLoading

\* show becomes true; the effect makes the current user the default assignee
ModalOpen ==
  /\ HostReady /\ ~ui.modal.show
  /\ Stay([ui EXCEPT !.modal.show = TRUE,
                     !.modal.assignee_id = IF isAuthenticated /\ user.present /\ user.id # NullId
                                             THEN user.id ELSE ui.modal.assignee_id])
  /\ last' = Quiet("ModalOpen", 0)
  /\ ServerSame
  /\ UNCHANGED <<loginPc, logoutPc, call>>

ModalSetTitle(t) ==
  /\ HostReady /\ ui.modal.show /\ t \in Titles /\ t # ui.modal.title
  /\ Stay([ui EXCEPT !.modal.title = t])
  /\ last' = Quiet("ModalSetTitle", 0)
  /\ ServerSame
  /\ UNCHANGED <<loginPc, logoutPc, call>>

\* the primary-assignee select, its empty option included
ModalChoose(a) ==
  /\ HostReady /\ ui.modal.show /\ ~ui.modal.chosen
  /\ a \in UserIds \cup {NullId}
  /\ Stay([ui EXCEPT !.modal.assignee_id = a, !.modal.chosen = (a # NullId)])
  /\ last' = Quiet("ModalChoose", 0)
  /\ ServerSame
  /\ UNCHANGED <<loginPc, logoutPc, call>>

\* the endpoint handleSubmit picks for the cached role
ModalEndpointAlwaysAdmin(role) == "POST /admin/task"

ModalEndpoint(role) == IF role = "admin" THEN "POST /admin/task" ELSE "POST /task/"

\* handleSubmit up to its await; the button is disabled while loading or without
\* a title, the form does not submit while the required select is empty
ModalSubmit ==
  /\ HostReady /\ ui.modal.show /\ ~ui.modal.loading /\ call = NoCall
  /\ ui.modal.title # "" /\ ui.modal.assignee_id # NullId
  /\ call' = [Await("ModalDone") EXCEPT !.host = page]
  /\ Stay([ui EXCEPT !.modal.loading = TRUE, !.modal.error = ""])
  /\ last' = Posted("ModalSubmit", ModalEndpoint(user.role),
                    CreateBody("modal", OrElse(ParseInt(ui.modal.assignee_id), user.id),
                               ui.modal.chosen, ui.modal.title))
  /\ ServerSame
  /\ UNCHANGED <<loginPc, logoutPc>>

\* handleClose
ModalClose ==
  /\ HostReady /\ ui.modal.show /\ ~ui.modal.loading
  /\ Stay([ui EXCEPT !.modal = ModalInit])
  /\ last' = Quiet("ModalClose", 0)
  /\ ServerSame
  /\ UNCHANGED <<loginPc, logoutPc, call>>

\* the post is rejected: the error, loading off
ModalFailed(status) ==
  /\ call.at = "ModalDone"
  /\ status \in Answer(call.cred) \ {200}
  /\ call' = NoCall
  /\ Stay([ui EXCEPT !.modal.loading = FALSE, !.modal.error = "Request failed"])
  /\ last' = Quiet("ModalFailed", status)
  /\ ServerSame
  /\ UNCHANGED <<loginPc, logoutPc>>

\* the post succeeded: the form is reset, onHide(), then onTaskCreated() of the
\* host that rendered the modal at submit time: fetchTasks of the dashboard page,
\* fetchDashboardData of the admin dashboard (isAuthenticated was true in the
\* render that created it)
ModalCreated ==
  /\ call.at = "ModalDone"
  /\ 200 \in Answer(call.cred)
  /\ call' = IF call.host = "DashboardPage" THEN Await("DashboardRefresh")
             ELSE IF page = "AdminDashboard" THEN Await("AdminDashboardLoaded")
             ELSE NoCall
  /\ Stay([ui EXCEPT !.modal = ModalInit])
  /\ last' = Sent("ModalCreated", 200,
                  IF call.host = "DashboardPage" THEN "GET /task/assignee/tasks"
                  ELSE "GET /admin/dashboard")
  /\ ServerSame
  /\ UNCHANGED <<loginPc, logoutPc>>

\* ------------------------------------------------------------------- Next
Next ==
  \/ \E r \in Routes : Visit(r)
  \/ Redirect
  \/ Expire
  \/ MountPlain
  \/ \E k \in AttemptKinds : LoginSubmit(k)
  \/ \E i \in UserIds, shape \in Shapes, hasToken \in BOOLEAN : LoginOk(i, shape, hasToken)
  \/ LoginNoData
  \/ \E status \in FailStatuses, detail \in Details : LoginFail(status, detail)
  \/ LogoutStart
  \/ \E ok \in BOOLEAN : LogoutFinish(ok)
  \/ DashboardMount
  \/ \E status \in {200, 401, 500} : DashboardStats(status)
  \/ \E status \in {200, 401, 500} : DashboardTasks(status)
  \/ \E status \in {200, 401, 500} : DashboardRefresh(status)
  \/ TasksMount
  \/ \E status \in {200, 401, 500} : TasksLoaded(status)
  \/ \E taskId \in TaskIds, newStatus \in Status : StatusChange(taskId, newStatus)
  \/ \E status \in {200, 401, 500} : StatusChanged(status)
  \/ AdminDashboardMount
  \/ \E status \in {200, 401, 500} : AdminDashboardLoaded(status)
  \/ AdminTaskListMount
  \/ \E status \in {200, 401, 500} : AdminTaskListLoaded(status)
  \/ TaskDetailsMount
  \/ \E status \in {200, 401, 500} : TaskDetailsLoaded(status)
  \/ CreateMount
  \/ \E t \in Titles : CreateSetTitle(t)
  \/ \E a \in UserIds : CreateChoose(a)
  \/ CreateSubmit
  \/ \E status \in {200, 401, 500} : CreateDone(status)
  \/ ModalOpen
  \/ \E t \in Titles : ModalSetTitle(t)
  \/ \E a \in UserIds \cup {NullId} : ModalChoose(a)
  \/ ModalSubmit
  \/ ModalClose
  \/ \E status \in {401, 500} : ModalFailed(status)
  \/ ModalCreated

Spec == Init /\ [][Next]_vars

\* =============================================== the task forms, in detail
\* A second specification over the same variables: one logged-in client on one
\* of the components that create or edit a task.  Here `page` is that component,
\* `ui` its useState, `call` the request it awaits and `last` the request the
\* last step sent; the router and the login state do not move.
FormPages == {"CreateTaskPage", "CreateTaskModal", "TaskDetails", "Tasks"}

CreateForms == {"CreateTaskPage", "CreateTaskModal"}

\* the titles a text input can hold, one of them only white space
FormTitles == Titles \cup {" "}

\* String.prototype.trim
Trim(t) == IF t = " " THEN "" ELSE t

\* useState of the mounted component: the title input (title / formData.title /
\* newTitle / editedData.task_title), the loaded task's title, the primary
\* assignee, the additional assignees, the options loaded by allAssignees
FormInit == [title |-> "", task |-> "null", assigneeId |-> NullId,
             selectedAssignees |-> {}, assignees |-> {}, isEditing |-> FALSE]

NoBody == [title |-> "n/a", assignee_id |-> NullId, assignee_ids |-> {}]

FormQuiet(op) == [op |-> op, ep |-> "none", body |-> NoBody]

FormSent(op, ep, b) == [op |-> op, ep |-> ep, body |-> b]

\* taskData of handleSubmit as createTask / createAdminTask post it:
\* assignee_id: parseInt(task.assignee_id), assignee_ids: task.assignee_ids || null
TaskData(title, assignee, selected) ==
  [title |-> title, assignee_id |-> ParseInt(assignee), assignee_ids |-> selected]

FormFrame ==
  UNCHANGED <<user, isAuthenticated, storage, route, loginPc, logoutPc, session,
              srvTasks, shownFor>>

FormStart ==
  /\ user \in {Identity(i, EmailOf(i), RoleOf(i)) : i \in UserIds}
  /\ isAuthenticated = TRUE
  /\ storage = [user |-> user, access_token |-> TokenOf(user.id)]
  /\ session = user.id
  /\ route = "/" /\ page = "none" /\ ui = FormInit
  /\ loginPc = "idle" /\ logoutPc = "idle" /\ call = NoCall
  /\ srvTasks = [t \in TaskIds |-> "pending"]
  /\ shownFor = [k \in {"wrong_password", "unknown_email"} |-> "unset"]
  /\ last = FormQuiet("Init")

\* the component mounts and its effect runs: both create forms make the current
\* user the primary assignee, the page also puts it among the selected
\* assignees; every component starts its load
FormMount(p) ==
  /\ p \in FormPages /\ page = "none" /\ call = NoCall
  /\ page' = p
  /\ ui' = CASE p = "CreateTaskPage" ->
                  [FormInit EXCEPT !.assigneeId = user.id,
                                   !.selectedAssignees = {user.id}]
             [] p = "CreateTaskModal" -> [FormInit EXCEPT !.assigneeId = user.id]
             [] OTHER -> FormInit
  /\ call' = Await(CASE p \in CreateForms -> "allAssignees"
                     [] p = "TaskDetails" -> "getTaskDetails"
                     [] OTHER -> "getAllTask")
  /\ last' = FormSent("FormMount",
                      CASE p \in CreateForms -> "GET /user/"
                        [] p = "TaskDetails" -> "GET /task/:id"
                        [] OTHER -> "GET /task/assignee/tasks", NoBody)
  /\ FormFrame

\* the component is left (navigation, onHide)
FormLeave ==
  /\ page \in FormPages /\ call = NoCall
  /\ page' = "none" /\ ui' = FormInit
  /\ last' = FormQuiet("FormLeave")
  /\ UNCHANGED call
  /\ FormFrame

\* onChange of the title input
SetTitle(t) ==
  /\ t \in FormTitles /\ t # ui.title
  /\ \/ page \in CreateForms
     \/ page \in {"TaskDetails", "Tasks"} /\ ui.isEditing
  /\ ui' = [ui EXCEPT !.title = t]
  /\ last' = FormQuiet("SetTitle")
  /\ UNCHANGED <<page, call>>
  /\ FormFrame

\* the options of the primary-assignee select
PrimaryOptions ==
  IF page = "CreateTaskPage" THEN {user.id} \cup ui.assignees
  ELSE ui.assignees \cup {NullId}

\* onChange of the primary-assignee select: only the primary assignee is set
ChoosePrimary(a) ==
  /\ page \in CreateForms
  /\ a \in PrimaryOptions /\ a # ui.assigneeId
  /\ ui' = [ui EXCEPT !.assigneeId = a]
  /\ last' = FormQuiet("ChoosePrimary")
  /\ UNCHANGED <<page, call>>
  /\ FormFrame

\* the options of the additional-assignee select: the modal leaves the primary out
AdditionalOptions ==
  IF page = "CreateTaskPage" THEN ui.assignees
  ELSE ui.assignees \ {ParseInt(ui.assigneeId)}

\* onChange of the multiple select: the selected options replace the list
SelectAdditional(S) ==
  /\ page \in CreateForms
  /\ S \subseteq AdditionalOptions /\ S # ui.selectedAssignees
  /\ AdditionalOptions # {}
  /\ ui' = [ui EXCEPT !.selectedAssignees = S]
  /\ last' = FormQuiet("SelectAdditional")
  /\ UNCHANGED <<page, call>>
  /\ FormFrame

\* what lets the form submit: the page's title input is `required`; the modal's
\* button is disabled without a trimmed title and its primary select is `required`
CanSubmit ==
  IF page = "CreateTaskPage" THEN ui.title # ""
  ELSE Trim(ui.title) # "" /\ ui.assigneeId # NullId

\* handleSubmit of the page and of the modal, up to the await
SubmitCreate ==
  /\ page \in CreateForms /\ call = NoCall
  /\ CanSubmit
  /\ call' = Await("createTask")
  /\ last' = FormSent("SubmitCreate",
                      IF page = "CreateTaskPage" THEN "POST /task/"
                      ELSE ModalEndpoint(user.role),
                      TaskData(ui.title,
                               IF page = "CreateTaskPage"
                                 THEN OrElse(ui.assigneeId, user.id)
                                 ELSE OrElse(ParseInt(ui.assigneeId), user.id),
                               ui.selectedAssignees))
  /\ UNCHANGED <<page, ui>>
  /\ FormFrame

\* Edit / Cancel of the details page; startEditing(task) of the legacy list
ToggleEditing ==
  /\ page \in {"TaskDetails", "Tasks"} /\ ui.task # "null"
  /\ ui' = IF page = "Tasks"
             THEN [ui EXCEPT !.isEditing = TRUE, !.title = ui.task]
             ELSE [ui EXCEPT !.isEditing = ~ui.isEditing]
  /\ last' = FormQuiet("ToggleEditing")
  /\ UNCHANGED <<page, call>>
  /\ FormFrame

\* TaskDetails.handleSaveTitle up to the await: updateTaskTitle(id, newTitle)
HandleSaveTitle ==
  /\ page = "TaskDetails" /\ ui.isEditing /\ call = NoCall
  /\ call' = Await("updateTaskTitle")
  /\ last' = FormSent("HandleSaveTitle", "PUT /task/task_title/:id",
                      [NoBody EXCEPT !.title = ui.title])
  /\ UNCHANGED <<page, ui>>
  /\ FormFrame

\* Tasks.handleEditSubmit up to the await: updateTask(id, editedData) posts
\* editedData.title, which the form (name="task_title") never changes
HandleEditSubmit ==
  /\ page = "Tasks" /\ ui.isEditing /\ call = NoCall
  /\ call' = Await("updateTask")
  /\ last' = FormSent("HandleEditSubmit", "PUT /task/:id",
                      [NoBody EXCEPT !.title = ui.task])
  /\ UNCHANGED <<page, ui>>
  /\ FormFrame

\* the awaited request settles
FormAnswered(ok) ==
  /\ call.at \in {"allAssignees", "getTaskDetails", "getAllTask", "createTask",
                  "updateTaskTitle", "updateTask"}
  /\ call' = NoCall
  /\ CASE call.at = "allAssignees" ->
            /\ ui' = [ui EXCEPT !.assignees = IF ok THEN UserIds ELSE {}]
            /\ UNCHANGED page
       [] call.at = "getTaskDetails" ->
            /\ ui' = IF ok THEN [ui EXCEPT !.task = "Fix bug", !.title = "Fix bug"] ELSE ui
            /\ UNCHANGED page
       [] call.at = "getAllTask" ->
            /\ ui' = IF ok THEN [ui EXCEPT !.task = "Fix bug"] ELSE ui
            /\ UNCHANGED page
       [] call.at = "createTask" ->
            /\ page' = IF ok THEN "none" ELSE page
            /\ ui' = IF ok THEN FormInit ELSE ui
       [] call.at = "updateTaskTitle" ->
            /\ ui' = IF ok THEN [ui EXCEPT !.task = ui.title, !.isEditing = FALSE] ELSE ui
            /\ UNCHANGED page
       [] OTHER ->
            /\ ui' = IF ok THEN [ui EXCEPT !.isEditing = FALSE] ELSE ui
            /\ UNCHANGED page
  /\ last' = FormQuiet("FormAnswered")
  /\ FormFrame

FormNext ==
  \/ \E p \in FormPages : FormMount(p)
  \/ FormLeave
  \/ \E t \in FormTitles : SetTitle(t)
  \/ \E a \in UserIds \cup {NullId} : ChoosePrimary(a)
  \/ \E S \in SUBSET UserIds : SelectAdditional(S)
  \/ SubmitCreate
  \/ ToggleEditing
  \/ HandleSaveTitle
  \/ HandleEditSubmit
  \/ \E ok \in BOOLEAN : FormAnswered(ok)

FormSpec == FormStart /\ [][FormNext]_vars

\* ================================================= the task list, in detail
\* A third specification over the same variables: one caller, the tasks that
\* qualify for it on the server, and the components that load them with
\* getAllTask.  Here `srvTasks` is the sequence of those tasks' statuses in
\* ascending order, `page` the component that loads, `ui` its useState, `call`
\* the awaited request with its arguments and `last` the response handled last.
MaxQualifying == 12
MaxPage == 3
MaxLimit == 5

\* getAllTask(page = 1, isAscending = true, limit = 5); TasksPage asks for 50
DefaultLimit == 5
TasksPageLimit == 50

ListInit == [tasks |-> << >>, page |-> 1, totalPages |-> 0, isAscending |-> TRUE]

\* getAllTask: the query parameters of GET /task/assignee/tasks
GetAllTaskSkipsPage(p, isAscending, limit) ==
  [skip |-> p * limit, limit |-> limit, is_ascending |-> isAscending]

GetAllTask(p, isAscending, limit) ==
  [skip |-> (p - 1) * limit, limit |-> limit, is_ascending |-> isAscending]

\* listTasks on the server: the qualifying tasks in the requested order, cut to
\* the window [skip, skip + limit), and their total
ListTasks(params) ==
  LET n == Len(srvTasks)
      ordered == IF params.is_ascending THEN srvTasks
                 ELSE [i \in 1..n |-> srvTasks[n + 1 - i]]
      upto == IF params.skip + params.limit < n THEN params.skip + params.limit ELSE n
  IN  [tasks |-> SubSeq(ordered, params.skip + 1, upto), total |-> n,
       limit |-> params.limit]

\* Math.ceil(total / limit)
Ceil(total, limit) == (total + limit - 1) \div limit

\* the numbers of the dashboard's stat cards, computed from a list of tasks
StatCards(tasks) ==
  [total |-> Len(tasks),
   completed |-> Cardinality({i \in 1..Len(tasks) : tasks[i] = "completed"}),
   in_progress |-> Cardinality({i \in 1..Len(tasks) : tasks[i] = "in_progress"}),
   pending |-> Cardinality({i \in 1..Len(tasks) : tasks[i] = "pending"})]

NoAnswer == [op |-> "none", host |-> "none", ok |-> FALSE, p |-> 0, L |-> 0,
             asc |-> TRUE, tasks |-> << >>, total |-> 0]

ListFrame ==
  UNCHANGED <<user, isAuthenticated, storage, route, loginPc, logoutPc, session,
              shownFor>>

ListStart ==
  /\ user \in {Identity(i, EmailOf(i), RoleOf(i)) : i \in UserIds}
  /\ isAuthenticated = TRUE
  /\ storage = [user |-> user, access_token |-> TokenOf(user.id)]
  /\ session = user.id
  /\ route = "/" /\ page = "none" /\ ui = ListInit
  /\ loginPc = "idle" /\ logoutPc = "idle" /\ call = NoCall
  /\ \E n \in 0..MaxQualifying : srvTasks = [i \in 1..n |-> "pending"]
  /\ shownFor = [k \in {"wrong_password", "unknown_email"} |-> "unset"]
  /\ last = NoAnswer

\* changeStatus on the server, by any client: one task takes another status
\* (at most one task at a time is not pending)
ChangeOne(i, s) ==
  /\ i \in 1..Len(srvTasks) /\ s \in Status /\ s # srvTasks[i]
  /\ \A j \in 1..Len(srvTasks) : j # i => srvTasks[j] = "pending"
  /\ srvTasks' = [srvTasks EXCEPT ![i] = s]
  /\ last' = NoAnswer
  /\ UNCHANGED <<page, ui, call>>
  /\ ListFrame

\* a component mounts (or a caller calls the service) and getAllTask is sent:
\* DashboardPage with the defaults, TasksPage with (1, true, 50), the legacy
\* list with its page and sort order, any other caller with (p, asc, L)
ListLoad(host, p, asc, L) ==
  /\ call = NoCall
  /\ host \in {"DashboardPage", "TasksPage", "Tasks", "caller"}
  /\ p \in 1..MaxPage /\ L \in 1..MaxLimit
  /\ host # "caller" => (page \in {"none", host} /\ p = 1 /\ asc /\ L = 1)
  /\ page' = host
  /\ ui' = IF page = host THEN ui ELSE ListInit
  /\ LET args == CASE host = "DashboardPage" -> <<1, TRUE, DefaultLimit>>
                   [] host = "TasksPage" -> <<1, TRUE, TasksPageLimit>>
                   [] host = "Tasks" -> <<ui'.page, ui'.isAscending, DefaultLimit>>
                   [] OTHER -> <<p, asc, L>>
     IN  call' = [at |-> "getAllTask", host |-> host, p |-> args[1], L |-> args[3],
                  params |-> GetAllTask(args[1], args[2], args[3])]
  /\ last' = NoAnswer
  /\ UNCHANGED srvTasks
  /\ ListFrame

\* the legacy list: handleNextPage, handlePrevPage, the sort button; the effect
\* then loads again
ListTurn(how) ==
  /\ page = "Tasks" /\ call = NoCall
  /\ how \in {"next", "prev", "sort"}
  /\ how = "next" => ui.page < ui.totalPages
  /\ how = "prev" => ui.page > 1
  /\ ui' = CASE how = "next" -> [ui EXCEPT !.page = ui.page + 1]
             [] how = "prev" -> [ui EXCEPT !.page = ui.page - 1]
             [] OTHER -> [ui EXCEPT !.isAscending = ~ui.isAscending]
  /\ call' = [at |-> "getAllTask", host |-> "Tasks", p |-> ui'.page, L |-> DefaultLimit,
              params |-> GetAllTask(ui'.page, ui'.isAscending, DefaultLimit)]
  /\ last' = NoAnswer
  /\ UNCHANGED <<page, srvTasks>>
  /\ ListFrame

\* the request settles: the component keeps the tasks of the response (the
\* legacy list also the number of pages), or nothing changes when it failed
ListAnswered(ok) ==
  /\ call # NoCall
  /\ LET data == ListTasks(call.params)
     IN  /\ ui' = IF ~ok \/ call.host = "caller" THEN ui
                  ELSE IF call.host = "Tasks"
                    THEN [ui EXCEPT !.tasks = data.tasks,
                                    !.totalPages = Ceil(data.total, data.limit)]
                    ELSE [ui EXCEPT !.tasks = data.tasks]
         /\ last' = [op |-> "Listed", host |-> call.host, ok |-> ok, p |-> call.p,
                     L |-> call.L, asc |-> call.params.is_ascending,
                     tasks |-> IF ok THEN data.tasks ELSE << >>,
                     total |-> IF ok THEN data.total ELSE 0]
  /\ call' = NoCall
  /\ UNCHANGED <<page, srvTasks>>
  /\ ListFrame

ListNext ==
  \/ \E i \in 1..MaxQualifying, s \in Status : ChangeOne(i, s)
  \/ \E host \in {"DashboardPage", "TasksPage", "Tasks", "caller"},
        p \in 1..MaxPage, asc \in BOOLEAN, L \in 1..MaxLimit : ListLoad(host, p, asc, L)
  \/ \E how \in {"next", "prev", "sort"} : ListTurn(how)
  \/ \E ok \in BOOLEAN : ListAnswered(ok)

ListSpec == ListStart /\ [][ListNext]_vars

\* ============================================ the bearer token, in detail
\* A fourth specification over the same variables: logins, logouts and the
\* requests sent in between, by the TaskService client and by UserDashboard.
\* Here `last` is the request the last step sent with its Authorization header,
\* and `last.login` the account of the latest login whose response carried an
\* access token (none after a logout).

\* `Bearer ${token}`; a template literal prints a missing item as "null"
Bearer(token) == IF token = "none" THEN "Bearer null" ELSE token

\* the request interceptor of api: the header is set only when a token is stored
Interceptor == IF storage.access_token # "none" THEN Bearer(storage.access_token)
               ELSE "none"

TokenStart ==
  /\ storage \in StoredSessions
  /\ user = storage.user
  /\ isAuthenticated = storage.user.present
  /\ session = storage.user.id
  /\ route = "/" /\ page = "none" /\ ui = UiInit
  /\ loginPc = "idle" /\ logoutPc = "idle" /\ call = NoCall
  /\ srvTasks = [t \in TaskIds |-> "pending"]
  /\ shownFor = [k \in {"wrong_password", "unknown_email"} |-> "unset"]
  /\ last = [op |-> "none", ep |-> "none", authorization |-> "none",
             login |-> storage.user.id]

\* LoginPage.handleSubmit with its answer: POST /login/token goes through the
\* interceptor, then login(accessToken, userData)
TokLogin(i, shape, hasToken) ==
  /\ ~isAuthenticated
  /\ i \in UserIds /\ shape \in Shapes /\ hasToken \in BOOLEAN
  /\ storage' = LoginStorage(IF hasToken THEN TokenOf(i) ELSE "none", UserData(shape, i))
  /\ user' = LoginUser(UserData(shape, i))
  /\ isAuthenticated' = TRUE
  /\ session' = i
  /\ last' = [op |-> "login", ep |-> "POST /login/token", authorization |-> Interceptor,
              login |-> IF hasToken THEN i ELSE NullId]
  /\ UNCHANGED <<route, page, ui, loginPc, logoutPc, call, srvTasks, shownFor>>

\* AuthProvider.logout with its answer: POST /login/logout, then the finally block
TokLogout ==
  /\ isAuthenticated
  /\ storage' = EmptyStorage /\ user' = NoUser /\ isAuthenticated' = FALSE
  /\ session' = NullId
  /\ last' = [op |-> "logout", ep |-> "POST /login/logout", authorization |-> Interceptor,
              login |-> NullId]
  /\ UNCHANGED <<route, page, ui, loginPc, logoutPc, call, srvTasks, shownFor>>

\* any function of TaskService sends its request through api
ApiRequest(ep) ==
  /\ ep \in TaskEndpoints
  /\ last' = [op |-> "request", ep |-> ep, authorization |-> Interceptor,
              login |-> last.login]
  /\ UNCHANGED <<user, isAuthenticated, storage, route, page, ui, loginPc, logoutPc,
                 call, session, srvTasks, shownFor>>

\* UserDashboard: fetchDashboardData, startTimeLog, stopTimeLog and
\* updateTaskStatus call fetch with the item 'token' of localStorage, which
\* nothing ever stores
UserDashboardFetch(ep) ==
  /\ user.present
  /\ ep \in {"GET /dashboard/dashboard", "POST /dashboard/time-logs/start",
             "PUT /dashboard/time-logs/:id/stop", "PUT /dashboard/tasks/:id/status"}
  /\ last' = [op |-> "request", ep |-> ep, authorization |-> Bearer("none"),
              login |-> last.login]
  /\ UNCHANGED <<user, isAuthenticated, storage, route, page, ui, loginPc, logoutPc,
                 call, session, srvTasks, shownFor>>

TokenNext ==
  \/ \E i \in UserIds, shape \in Shapes, hasToken \in BOOLEAN : TokLogin(i, shape, hasToken)
  \/ TokLogout
  \/ \E ep \in TaskEndpoints : ApiRequest(ep)
  \/ \E ep \in {"GET /dashboard/dashboard", "POST /dashboard/time-logs/start",
                "PUT /dashboard/time-logs/:id/stop", "PUT /dashboard/tasks/:id/status"} :
       UserDashboardFetch(ep)

TokenSpec == TokenStart /\ [][TokenNext]_vars

\* ================================================================ the task service, several callers
\* Several clients, each signed in as one user, call the task endpoints of
\* TaskService. srvTasks is the stored task (one slot), call the set of status
\* requests in flight and last the answer of the latest request. A request
\* carries the identity its credential resolves to.
MaxInFlight == 2

\* section 4.2: a non-admin caller sees the tasks it wrote, is the primary
\* assignee of or an additional assignee of; an admin sees every task
VisibleToAll(caller, task) == task.exists

Visible(caller, task) ==
  /\ task.exists
  /\ \/ RoleOf(caller) = "admin"
     \/ caller = task.author
     \/ caller = task.assignee
     \/ caller \in task.others

\* updateTaskStatus(taskId, status): PUT /task/status/:id with the body {status}
UpdateTaskStatusWithRevision(taskId, status) ==
  [ep |-> "PUT /task/status/:id", id |-> taskId,
   body |-> [status |-> status, revision |-> 1]]

UpdateTaskStatus(taskId, status) ==
  [ep |-> "PUT /task/status/:id", id |-> taskId, body |-> [status |-> status]]

ServiceStart ==
  /\ user = NoUser /\ isAuthenticated = FALSE /\ storage = EmptyStorage
  /\ session = NullId
  /\ route = "/" /\ page = "none" /\ ui = UiInit
  /\ loginPc = "idle" /\ logoutPc = "idle"
  /\ shownFor = [k \in {"wrong_password", "unknown_email"} |-> "unset"]
  /\ call = {}
  /\ srvTasks = [exists |-> FALSE, author |-> NullId, assignee |-> NullId,
                 others |-> {}, status |-> "pending"]
  /\ last = [op |-> "none", caller |-> NullId, ok |-> FALSE]

\* createTask / createAdminTask by client i, answered: the body carries
\* assignee_id and assignee_ids; section 4.3 createTask stores the caller as
\* author and puts the primary assignee among the additional ones
SrvCreate(i, a, S) ==
  /\ ~srvTasks.exists
  /\ LET body == [assignee_id |-> a, assignee_ids |-> S]
     IN /\ srvTasks' = [exists |-> TRUE, author |-> i, assignee |-> body.assignee_id,
                        others |-> body.assignee_ids \cup {body.assignee_id},
                        status |-> "pending"]
        /\ last' = [op |-> "create", caller |-> i, ok |-> TRUE]
  /\ UNCHANGED <<user, isAuthenticated, storage, route, page, ui, loginPc, logoutPc,
                 call, session, shownFor>>

\* changeAssignee(taskId, assigneeEmail) by client i, answered: section 4.3
\* changeAssignee replaces the primary assignee of a task the caller may see
SrvChangeAssignee(i, a) ==
  /\ LET body == [task_id |-> 1, assignee_email |-> a]
         ok == Visible(i, srvTasks)
     IN /\ srvTasks' = IF ok THEN [srvTasks EXCEPT !.assignee = body.assignee_email]
                        ELSE srvTasks
        /\ last' = [op |-> "change_assignee", caller |-> i, ok |-> ok]
  /\ UNCHANGED <<user, isAuthenticated, storage, route, page, ui, loginPc, logoutPc,
                 call, session, shownFor>>

\* deleteTask(taskId) by client i, answered: section 4.3 deleteTask, a hard delete
SrvDelete(i) ==
  /\ LET ok == Visible(i, srvTasks)
     IN /\ srvTasks' = IF ok THEN [exists |-> FALSE, author |-> NullId,
                                   assignee |-> NullId, others |-> {},
                                   status |-> "pending"]
                        ELSE srvTasks
        /\ last' = [op |-> "delete", caller |-> i, ok |-> ok]
  /\ UNCHANGED <<user, isAuthenticated, storage, route, page, ui, loginPc, logoutPc,
                 call, session, shownFor>>

\* TasksPage.fetchTasks by client i, answered: getAllTask sends skip, limit and
\* is_ascending and no user id; section 4.3 listTasks answers in the scope of
\* the caller
SrvList(i) ==
  /\ last' = [op |-> "list", caller |-> i, ok |-> TRUE,
              tasks |-> IF Visible(i, srvTasks) THEN {srvTasks} ELSE {}]
  /\ UNCHANGED <<user, isAuthenticated, storage, route, page, ui, loginPc, logoutPc,
                 call, session, srvTasks, shownFor>>

\* TasksPage.handleStatusChange of client i: the request leaves
SendStatus(i, s) ==
  /\ Cardinality(call) < MaxInFlight
  /\ \A r \in call : r.from # i
  /\ call' = call \cup {[from |-> i, req |-> UpdateTaskStatus(1, s), raced |-> FALSE]}
  /\ UNCHANGED <<user, isAuthenticated, storage, route, page, ui, loginPc, logoutPc,
                 session, srvTasks, shownFor, last>>

\* section 4.3 changeStatus: the server applies the request of client i that is
\* in flight; nothing of the request is compared with the stored task; the
\* requests still in flight have been overtaken by a write
ApplyStatus(i) ==
  /\ \E r \in call : r.from = i
  /\ LET r == CHOOSE q \in call : q.from = i
         ok == Visible(r.from, srvTasks)
     IN /\ srvTasks' = IF ok THEN [srvTasks EXCEPT !.status = r.req.body.status]
                        ELSE srvTasks
        /\ call' = {[q EXCEPT !.raced = q.raced \/ ok] : q \in call \ {r}}
        /\ last' = [op |-> "status", caller |-> r.from, ok |-> ok,
                    body |-> r.req.body, prev |-> srvTasks.status, raced |-> r.raced]
  /\ UNCHANGED <<user, isAuthenticated, storage, route, page, ui, loginPc, logoutPc,
                 session, shownFor>>

ServiceNext ==
  \/ \E i \in UserIds, a \in UserIds, S \in SUBSET UserIds : SrvCreate(i, a, S)
  \/ \E i \in UserIds, a \in UserIds : SrvChangeAssignee(i, a)
  \/ \E i \in UserIds : SrvDelete(i)
  \/ \E i \in UserIds : SrvList(i)
  \/ \E i \in UserIds, s \in Status : SendStatus(i, s)
  \/ \E i \in UserIds : ApplyStatus(i)

ServiceSpec == ServiceStart /\ [][ServiceNext]_vars

\* ================================================== the task title, in detail
\* One client on the details page of one task.  A title is a sequence of
\* characters; srvTasks is the stored task, ui the useState of TaskDetails, call
\* the set of title requests that are in flight or answered and not yet handled
\* and last the answer the page handled last.
TitleInputs == {<< >>, <<"a">>, <<"a", " ">>, <<"a", "&", "b">>, <<"%", "2", "6">>}

EncodeURIComponentNothing(s) == s

\* encodeURIComponent: letters and digits stay, the other characters are escaped
RECURSIVE EncodeURIComponent(_)
EncodeURIComponent(s) ==
  IF s = << >> THEN << >>
  ELSE (CASE Head(s) = " " -> <<"%", "2", "0">>
          [] Head(s) = "%" -> <<"%", "2", "5">>
          [] Head(s) = "&" -> <<"%", "2", "6">>
          [] Head(s) = "=" -> <<"%", "3", "D">>
          [] OTHER -> <<Head(s)>>) \o EncodeURIComponent(Tail(s))

\* updateTaskTitle(id, newTitle): PUT /task/task_title/${id}?task_title=... with
\* the body {}
UpdateTaskTitle(id, newTitle) ==
  [ep |-> "PUT /task/task_title/:id", id |-> id,
   query |-> <<"task_title", "=">> \o EncodeURIComponent(newTitle), body |-> << >>]

\* the server reads the parameter task_title of the query: the characters up to
\* the next "&", with the escapes decoded
TitleOfQuery(q) ==
  LET RECURSIVE Value(_)
      Value(s) == IF s = << >> \/ Head(s) = "&" THEN << >>
                  ELSE <<Head(s)>> \o Value(Tail(s))
      RECURSIVE Decode(_)
      Decode(s) ==
        IF s = << >> THEN << >>
        ELSE IF Head(s) = "%" /\ Len(s) >= 3
          THEN (CASE SubSeq(s, 2, 3) = <<"2", "0">> -> <<" ">>
                  [] SubSeq(s, 2, 3) = <<"2", "5">> -> <<"%">>
                  [] SubSeq(s, 2, 3) = <<"2", "6">> -> <<"&">>
                  [] SubSeq(s, 2, 3) = <<"3", "D">> -> <<"=">>
                  [] OTHER -> SubSeq(s, 1, 3)) \o Decode(SubSeq(s, 4, Len(s)))
          ELSE <<Head(s)>> \o Decode(Tail(s))
  IN Decode(Value(SubSeq(q, 3, Len(q))))

TitleStart ==
  /\ user \in {Identity(i, EmailOf(i), RoleOf(i)) : i \in UserIds}
  /\ isAuthenticated = TRUE
  /\ storage = [user |-> user, access_token |-> TokenOf(user.id)]
  /\ session = user.id
  /\ route = "/task/:id" /\ page = "TaskDetails"
  /\ loginPc = "idle" /\ logoutPc = "idle"
  /\ shownFor = [k \in {"wrong_password", "unknown_email"} |-> "unset"]
  /\ srvTasks \in [title : TitleInputs \ {<< >>}]
  /\ ui = [task |-> "null", error |-> FALSE, isEditing |-> FALSE, newTitle |-> << >>]
  /\ call = {}
  /\ last = [op |-> "none"]

\* the effect of TaskDetails with its answer: getTaskDetails(id), then
\* setTask(response.data) and setNewTitle(response.data.title), or setError
FetchTask(ok) ==
  /\ ui.task = "null" /\ ~ui.error
  /\ ui' = IF ok THEN [ui EXCEPT !.task = srvTasks.title, !.newTitle = srvTasks.title]
           ELSE [ui EXCEPT !.error = TRUE]
  /\ last' = [op |-> "none"]
  /\ UNCHANGED <<user, isAuthenticated, storage, route, page, loginPc, logoutPc,
                 call, session, srvTasks, shownFor>>

\* handleTitleChange: the input is rendered while the page edits
HandleTitleChange(t) ==
  /\ ui.task # "null" /\ ~ui.error /\ ui.isEditing
  /\ t # ui.newTitle
  /\ ui' = [ui EXCEPT !.newTitle = t]
  /\ last' = [op |-> "none"]
  /\ UNCHANGED <<user, isAuthenticated, storage, route, page, loginPc, logoutPc,
                 call, session, srvTasks, shownFor>>

\* the Edit / Cancel button: setIsEditing(!isEditing)
SetIsEditing ==
  /\ ui.task # "null" /\ ~ui.error
  /\ ui' = [ui EXCEPT !.isEditing = ~ui.isEditing]
  /\ last' = [op |-> "none"]
  /\ UNCHANGED <<user, isAuthenticated, storage, route, page, loginPc, logoutPc,
                 call, session, srvTasks, shownFor>>

\* handleSaveTitle up to the await; the Save button stays enabled while a
\* request is in flight.  The continuation keeps the newTitle of this render.
SaveTitle ==
  /\ ui.task # "null" /\ ~ui.error /\ ui.isEditing
  /\ Cardinality(call) < MaxInFlight
  /\ call' = call \cup {[req |-> UpdateTaskTitle(1, ui.newTitle), newTitle |-> ui.newTitle,
                         at |-> "sent", raced |-> FALSE]}
  /\ last' = [op |-> "none"]
  /\ UNCHANGED <<user, isAuthenticated, storage, route, page, ui, loginPc, logoutPc,
                 session, srvTasks, shownFor>>

\* the server handles the request that carries title t: it stores the title of
\* the query or refuses; an earlier write whose answer is still on its way is
\* no longer the stored one
ApplyTitle(t, ok) ==
  LET r == [req |-> UpdateTaskTitle(1, t), newTitle |-> t, at |-> "sent", raced |-> FALSE]
  IN /\ r \in call
     /\ srvTasks' = IF ok THEN [srvTasks EXCEPT !.title = TitleOfQuery(r.req.query)]
                    ELSE srvTasks
     /\ call' = {[q EXCEPT !.raced = q.raced \/ (ok /\ q.at = "ok")] : q \in call \ {r}}
                  \cup {[r EXCEPT !.at = IF ok THEN "ok" ELSE "failed"]}
     /\ last' = [op |-> "none"]
     /\ UNCHANGED <<user, isAuthenticated, storage, route, page, ui, loginPc, logoutPc,
                    session, shownFor>>

\* handleSaveTitle after the await: setTask(prevTask => ({...prevTask, title:
\* newTitle})) and setIsEditing(false), or setError in the catch
TitleAnswered(t, a, b) ==
  LET r == [req |-> UpdateTaskTitle(1, t), newTitle |-> t, at |-> a, raced |-> b]
  IN /\ a \in {"ok", "failed"} /\ r \in call
     /\ call' = call \ {r}
     /\ ui' = IF a = "ok" THEN [ui EXCEPT !.task = r.newTitle, !.isEditing = FALSE]
              ELSE [ui EXCEPT !.error = TRUE]
     /\ last' = [op |-> IF a = "ok" THEN "saved" ELSE "failed", X |-> r.newTitle,
                 before |-> ui.task, raced |-> r.raced]
     /\ UNCHANGED <<user, isAuthenticated, storage, route, page, loginPc, logoutPc,
                    session, srvTasks, shownFor>>

TitleNext ==
  \/ \E ok \in BOOLEAN : FetchTask(ok)
  \/ \E t \in TitleInputs : HandleTitleChange(t)
  \/ SetIsEditing
  \/ SaveTitle
  \/ \E t \in TitleInputs, ok \in BOOLEAN : ApplyTitle(t, ok)
  \/ \E t \in TitleInputs, a \in {"ok", "failed"}, b \in BOOLEAN : TitleAnswered(t, a, b)

TitleSpec == TitleStart /\ [][TitleNext]_vars

\* ============================================ the writes of the task lists
\* One client on TasksPage, on the legacy list Tasks or on UserDashboard, with
\* NumListed loaded tasks.  ui is the useState of the page, call the set of write
\* requests in flight (one for a task at a time; loads are left to ListSpec) and
\* last the latest step: what it did, the list before it and, for every task,
\* the status the last handled answer confirmed.
NumListed == 2

\* the writes one run sends
MaxWrites == 3

ListedIds == 1..NumListed

\* the values the status buttons of Tasks and of UserDashboard pass
LegacyStatus == {"Pending", "In Progress", "Completed"}

NoRow == [status |-> "pending", email |-> "none", task_title |-> "none", here |-> FALSE]

PatchStart ==
  /\ user = Identity(1, EmailOf(1), RoleOf(1))
  /\ isAuthenticated = TRUE
  /\ storage = [user |-> user, access_token |-> TokenOf(user.id)]
  /\ session = user.id
  /\ route = "/" /\ page \in {"TasksPage", "Tasks", "UserDashboard"}
  /\ loginPc = "idle" /\ logoutPc = "idle"
  /\ srvTasks = [t \in TaskIds |-> "pending"]
  /\ shownFor = [k \in {"wrong_password", "unknown_email"} |-> "unset"]
  /\ ui = [tasks |-> [t \in ListedIds |-> [NoRow EXCEPT !.email = "user@x", !.here = TRUE]],
           loading |-> FALSE, error |-> FALSE, currentTask |-> 0, editingTask |-> 0,
           editedData |-> NoRow]
  /\ call = {}
  /\ last = [op |-> "none", id |-> 0, ok |-> FALSE, before |-> ui.tasks,
             confirmed |-> [t \in ListedIds |-> "none"], raced |-> FALSE, sent |-> 0]

\* openModal(task) and openAssigneeModal(task) of Tasks: setCurrentTask(task);
\* closeModal and closeModalAssignee: setCurrentTask(null)
SetCurrentTask(t) ==
  /\ page = "Tasks" /\ t # ui.currentTask
  /\ t \in ListedIds => ui.tasks[t].here
  /\ ui' = [ui EXCEPT !.currentTask = t]
  /\ last' = [last EXCEPT !.op = "ui", !.before = ui.tasks]
  /\ UNCHANGED <<user, isAuthenticated, storage, route, page, loginPc, logoutPc,
                 call, session, srvTasks, shownFor>>

\* startEditing(task): setEditingTask(task), setEditedData(task)
StartEditing(t) ==
  /\ page = "Tasks" /\ ui.tasks[t].here
  /\ ui' = [ui EXCEPT !.editingTask = t, !.editedData = ui.tasks[t]]
  /\ ui' # ui
  /\ last' = [last EXCEPT !.op = "ui", !.before = ui.tasks]
  /\ UNCHANGED <<user, isAuthenticated, storage, route, page, loginPc, logoutPc,
                 call, session, srvTasks, shownFor>>

\* handleEditChange on the input named task_title
HandleEditChange ==
  /\ page = "Tasks" /\ ui.editingTask # 0 /\ ui.editedData.task_title # "new"
  /\ ui' = [ui EXCEPT !.editedData.task_title = "new"]
  /\ last' = [last EXCEPT !.op = "ui", !.before = ui.tasks]
  /\ UNCHANGED <<user, isAuthenticated, storage, route, page, loginPc, logoutPc,
                 call, session, srvTasks, shownFor>>

\* a write request as it leaves: the operation, the task, the value passed, the
\* editedData and the tasks of the render whose handler runs
Write(op, t, v) ==
  [host |-> page, op |-> op, id |-> t, val |-> v,
   data |-> IF op = "edit" THEN ui.editedData ELSE NoRow,
   seen |-> ui.tasks, raced |-> FALSE]

\* handleStatusUpdate, handleAssigneeChange, handleEditSubmit and handleDelete of
\* Tasks up to the await: nothing is set before it
TasksSend(op, t, v) ==
  /\ page = "Tasks"
  /\ \A r \in call : r.id # t
  /\ CASE op = "status" -> t = ui.currentTask /\ v \in LegacyStatus
       [] op = "assignee" -> t = ui.currentTask /\ v = "admin@x"
       [] op = "edit" -> t = ui.editingTask /\ v = "none"
       [] op = "delete" -> ui.tasks[t].here /\ v = "none"
  /\ call' = call \cup {Write(op, t, v)}
  /\ last.sent < MaxWrites
  /\ last' = [last EXCEPT !.op = "sent", !.before = ui.tasks, !.sent = @ + 1]
  /\ UNCHANGED <<user, isAuthenticated, storage, route, page, ui, loginPc, logoutPc,
                 session, srvTasks, shownFor>>

\* TasksPage.handleStatusChange up to the await: setLoading(true); the select
\* is in the row of a task that is not completed, and the rows are not
\* rendered while loading
HandleStatusChange(t, s) ==
  /\ page = "TasksPage" /\ ~ui.loading
  /\ ui.tasks[t].status # "completed" /\ s # ui.tasks[t].status
  /\ ui' = [ui EXCEPT !.loading = TRUE]
  /\ call' = call \cup {Write("status", t, s)}
  /\ last.sent < MaxWrites
  /\ last' = [last EXCEPT !.op = "sent", !.before = ui.tasks, !.sent = @ + 1]
  /\ UNCHANGED <<user, isAuthenticated, storage, route, page, loginPc, logoutPc,
                 session, srvTasks, shownFor>>

\* UserDashboard.updateTaskStatus up to the await, from the buttons of the
\* task modal
DashUpdateTaskStatus(t, s) ==
  /\ page = "UserDashboard"
  /\ s \in {"In Progress", "Completed"}
  /\ \A r \in call : r.id # t
  /\ call' = call \cup {Write("status", t, s)}
  /\ last.sent < MaxWrites
  /\ last' = [last EXCEPT !.op = "sent", !.before = ui.tasks, !.sent = @ + 1]
  /\ UNCHANGED <<user, isAuthenticated, storage, route, page, ui, loginPc, logoutPc,
                 session, srvTasks, shownFor>>

\* the list a continuation patches: TasksPage maps the tasks of the render that
\* sent the request, Tasks the prevTasks its updater is handed
PatchBaseOfRender(r) == r.seen

PatchBase(r) == IF r.host = "TasksPage" THEN r.seen ELSE ui.tasks

\* the patch of one answer: map and filter touch the task with the id of the
\* request; {...task, ...editedData} takes every field from editedData
PatchedEveryRow(base, r) ==
  [t \in ListedIds |-> IF base[t].here THEN [base[t] EXCEPT !.status = r.val] ELSE base[t]]

Patched(base, r) ==
  [t \in ListedIds |->
     IF t # r.id \/ ~base[t].here THEN base[t]
     ELSE CASE r.op = "status" -> [base[t] EXCEPT !.status = r.val]
            [] r.op = "assignee" -> [base[t] EXCEPT !.email = r.val]
            [] r.op = "edit" -> r.data
            [] r.op = "delete" -> NoRow]

\* the request for task t settles and the handler goes on after its await, or
\* into its catch
WriteAnswered(t, ok) ==
  /\ \E r \in call : r.id = t
  /\ LET r == CHOOSE q \in call : q.id = t
     IN /\ call' = {[q EXCEPT !.raced = q.raced \/ (ok /\ r.op = "status" /\ q.op = "status")] :
                      q \in call \ {r}}
        /\ ui' = CASE r.host = "UserDashboard" -> ui
                   [] ~ok -> [ui EXCEPT !.error = TRUE]
                   [] r.host = "TasksPage" ->
                        [ui EXCEPT !.loading = FALSE, !.tasks = Patched(PatchBase(r), r)]
                   [] r.op = "edit" ->
                        [ui EXCEPT !.tasks = Patched(PatchBase(r), r), !.editingTask = 0,
                                   !.error = FALSE]
                   [] r.op = "delete" -> [ui EXCEPT !.tasks = Patched(PatchBase(r), r)]
                   [] OTHER ->
                        [ui EXCEPT !.tasks = Patched(PatchBase(r), r), !.currentTask = 0]
        /\ last' = [op |-> r.op, id |-> t, ok |-> ok, before |-> ui.tasks,
                    confirmed |->
                      IF ~ok \/ r.host = "UserDashboard" THEN last.confirmed
                      ELSE [last.confirmed EXCEPT
                              ![t] = IF r.op = "status" THEN r.val
                                     ELSE IF r.op = "assignee" THEN @ ELSE "none"],
                    raced |-> r.raced, sent |-> last.sent]
  /\ UNCHANGED <<user, isAuthenticated, storage, route, page, loginPc, logoutPc,
                 session, srvTasks, shownFor>>

PatchNext ==
  \/ \E t \in ListedIds \cup {0} : SetCurrentTask(t)
  \/ \E t \in ListedIds : StartEditing(t)
  \/ HandleEditChange
  \/ \E op \in {"status", "assignee", "edit", "delete"}, t \in ListedIds,
        v \in LegacyStatus \cup {"admin@x", "none"} : TasksSend(op, t, v)
  \/ \E t \in ListedIds, s \in Status : HandleStatusChange(t, s)
  \/ \E t \in ListedIds, s \in LegacyStatus : DashUpdateTaskStatus(t, s)
  \/ \E t \in ListedIds, ok \in BOOLEAN : WriteAnswered(t, ok)

PatchSpec == PatchStart /\ [][PatchNext]_vars

\* ====================================================== the tags, in detail
\* One client on a create form.  The tags input holds a sequence of characters;
\* ui is that input, last the tags of the request the form sent.
MaxTagLen == 4

TagInputs == UNION {[1..n -> {"a", "b", " ", ","}] : n \in 0..MaxTagLen}

NullTags == [null |-> TRUE, s |-> << >>]

\* String.prototype.split(','): the entries between the commas, in order
RECURSIVE Split(_)
Split(s) ==
  LET commas == {i \in 1..Len(s) : s[i] = ","}
  IN IF commas = {} THEN <<s>>
     ELSE LET i == CHOOSE k \in commas : \A j \in commas : k <= j
          IN <<SubSeq(s, 1, i - 1)>> \o Split(SubSeq(s, i + 1, Len(s)))

\* String.prototype.trim on an entry
RECURSIVE TrimTag(_)
TrimTag(s) ==
  IF s = << >> THEN s
  ELSE IF Head(s) = " " THEN TrimTag(Tail(s))
  ELSE IF s[Len(s)] = " " THEN TrimTag(SubSeq(s, 1, Len(s) - 1))
  ELSE s

\* Array.prototype.join(',')
RECURSIVE Join(_)
Join(es) ==
  IF es = << >> THEN << >>
  ELSE IF Len(es) = 1 THEN es[1]
  ELSE es[1] \o <<",">> \o Join(Tail(es))

\* CreateTaskPage: tags ? tags.split(',').map(tag => tag.trim()).filter(tag =>
\* tag).join(',') : null; CreateTaskModal: ...formData, the input as typed
FormTags(p, tags) ==
  IF p = "CreateTaskModal" THEN [null |-> FALSE, s |-> tags]
  ELSE IF tags = << >> THEN NullTags
  ELSE [null |-> FALSE,
        s |-> Join(SelectSeq([i \in 1..Len(Split(tags)) |-> TrimTag(Split(tags)[i])],
                             LAMBDA e : e # << >>))]

\* createTask and createAdminTask: tags: task.tags || null
CreateTaskTags(t) == IF t.null \/ t.s = << >> THEN NullTags ELSE t

TagStart ==
  /\ user \in {Identity(i, EmailOf(i), RoleOf(i)) : i \in UserIds}
  /\ isAuthenticated = TRUE
  /\ storage = [user |-> user, access_token |-> TokenOf(user.id)]
  /\ session = user.id
  /\ route = "/" /\ page \in CreateForms
  /\ loginPc = "idle" /\ logoutPc = "idle" /\ call = NoCall
  /\ srvTasks = [t \in TaskIds |-> "pending"]
  /\ shownFor = [k \in {"wrong_password", "unknown_email"} |-> "unset"]
  /\ ui = << >>
  /\ last = [op |-> "none", input |-> << >>, tags |-> NullTags]

\* onChange of the tags input
SetTags(s) ==
  /\ s # ui
  /\ ui' = s
  /\ last' = [op |-> "none", input |-> << >>, tags |-> NullTags]
  /\ UNCHANGED <<user, isAuthenticated, storage, route, page, loginPc, logoutPc,
                 call, session, srvTasks, shownFor>>

\* handleSubmit of the form and the request createTask builds from taskData
TagSubmit ==
  /\ last' = [op |-> "SubmitCreate", input |-> ui, tags |-> CreateTaskTags(FormTags(page, ui))]
  /\ UNCHANGED <<user, isAuthenticated, storage, route, page, ui, loginPc, logoutPc,
                 call, session, srvTasks, shownFor>>

TagNext ==
  \/ \E s \in TagInputs : SetTags(s)
  \/ TagSubmit

TagSpec == TagStart /\ [][TagNext]_vars

\* ================================================ the pages of the legacy list
\* The legacy list alone, with a server whose tasks can also be deleted between
\* two loads (by handleDelete of this list or by another client).
\* deleteTask on the server: one qualifying task is gone
DeleteOne ==
  /\ Len(srvTasks) > 0
  /\ srvTasks' = SubSeq(srvTasks, 1, Len(srvTasks) - 1)
  /\ last' = NoAnswer
  /\ UNCHANGED <<page, ui, call>>
  /\ ListFrame

PagerNext ==
  \/ ListLoad("Tasks", 1, TRUE, 1)
  \/ \E how \in {"next", "prev", "sort"} : ListTurn(how)
  \/ \E ok \in BOOLEAN : ListAnswered(ok)
  \/ DeleteOne

PagerSpec == ListStart /\ [][PagerNext]_vars

\* ================================================ the logout controls, in detail
\* A specification with fairness over the router, the auth provider and the
\* three logout controls: LogOut (await logout(), then navigate("/login")), its
\* earlier version (logout(); navigate("/")) and UserDashboard.handleLogout
\* (logout(); navigate('/login')).  No page mounts; logoutPc = "detached" while
\* a logout that nobody awaits is under way.
\* the user moves to another route while logged in, or opens the login page
Browse(r) ==
  /\ logoutPc = "idle"
  /\ isAuthenticated \/ r = "/login"
  /\ Visit(r)

\* LoginPage.handleSubmit answered with a token and the user data
LoginBack(i, shape) ==
  /\ route = "/login" /\ logoutPc = "idle"
  /\ TokLogin(i, shape, TRUE)

\* logout() is called and not awaited, navigate(to) follows at once
LogoutDetached(to) ==
  /\ isAuthenticated /\ logoutPc = "idle"
  /\ to \in {"/login", "/"}
  /\ logoutPc' = "detached"
  /\ GoTo(to, ui)
  /\ last' = Sent("LogoutStart", 0, "POST /login/logout")
  /\ ServerSame
  /\ UNCHANGED <<loginPc, call>>

\* the request of a logout nobody awaits settles: the finally block clears
LogoutDetachedFinish(ok) ==
  /\ logoutPc = "detached"
  /\ logoutPc' = "idle"
  /\ user' = LogoutUser(ok)
  /\ isAuthenticated' = FALSE
  /\ storage' = EmptyStorage
  /\ page' = KeepPage(route, FALSE, LogoutUser(ok))
  /\ ui' = Settle(page', ui)
  /\ shownFor' = Seen(page', shownFor)
  /\ session' = IF ok THEN NullId ELSE session
  /\ last' = Quiet("LogoutFinish:detached", IF ok THEN 200 ELSE 500)
  /\ call' = Pending(page')
  /\ UNCHANGED <<route, srvTasks, loginPc>>

\* LogOut.handleSubmit after its await
LogoutAwaited(ok) == logoutPc = "await" /\ LogoutFinish(ok)

LogoutNext ==
  \/ \E r \in Routes : Browse(r)
  \/ Redirect
  \/ \E i \in UserIds, shape \in Shapes : LoginBack(i, shape)
  \/ LogoutStart
  \/ \E ok \in BOOLEAN : LogoutAwaited(ok)
  \/ \E to \in {"/login", "/"} : LogoutDetached(to)
  \/ \E ok \in BOOLEAN : LogoutDetachedFinish(ok)

\* a request that was sent settles, and the router renders what the route shows
LogoutSpec ==
  /\ Init /\ [][LogoutNext]_vars
  /\ WF_vars(Redirect)
  /\ WF_vars(\E ok \in BOOLEAN : LogoutAwaited(ok))
  /\ WF_vars(\E ok \in BOOLEAN : LogoutDetachedFinish(ok))

\* ================================================ the auth provider, in detail
\* The provider alone, with what the sign-in pages pass to login.  storage is
\* localStorage: the item 'user' is absent, the text JSON.stringify wrote, or a
\* text that does not parse; user is the user state (null or an object), ui
\* tells whether the provider rendered, last the latest call.
\* the userData objects of the sign-in pages: {id, email, role} of the
\* response, the fallback of LoginPage, a response whose user has no role
UserDatas ==
  {[id |-> i, email |-> EmailOf(i), role |-> RoleOf(i)] : i \in UserIds}
    \cup {[id |-> NullId, email |-> "user@x", role |-> "user"],
          [id |-> 1, email |-> "user@x", role |-> "undefined"]}

NoData == [id |-> NullId, email |-> "none", role |-> "undefined"]

\* JSON.stringify(userData): null is written, a property that is undefined is
\* left out
JsonStringifyIdOnly(u) ==
  [id |-> [has |-> TRUE, v |-> u.id], email |-> [has |-> FALSE, v |-> "none"],
   role |-> [has |-> FALSE, v |-> "none"]]

JsonStringify(u) ==
  [id |-> [has |-> TRUE, v |-> u.id], email |-> [has |-> TRUE, v |-> u.email],
   role |-> IF u.role = "undefined" THEN [has |-> FALSE, v |-> "none"]
            ELSE [has |-> TRUE, v |-> u.role]]

\* JSON.parse of such a text: reading a property that is not there gives
\* undefined
JsonParse(t) ==
  [id |-> IF t.id.has THEN t.id.v ELSE NullId,
   email |-> IF t.email.has THEN t.email.v ELSE "undefined",
   role |-> IF t.role.has THEN t.role.v ELSE "undefined"]

AbsentItem == [kind |-> "absent", text |-> JsonStringify(NoData)]

\* the provider renders: useState(JSON.parse(localStorage.getItem("user")) ||
\* null) and useState(!!localStorage.getItem("user")), then the effect.
\* JSON.parse throws inside the render when the text does not parse; nothing
\* catches it and nothing is rendered.
Restore(st) ==
  IF st.user.kind = "garbage"
    THEN [started |-> FALSE, user |-> [null |-> TRUE, data |-> NoData], auth |-> FALSE]
    ELSE [started |-> TRUE,
          user |-> IF st.user.kind = "absent" THEN [null |-> TRUE, data |-> NoData]
                   ELSE [null |-> FALSE, data |-> JsonParse(st.user.text)],
          auth |-> st.user.kind # "absent"]

ProviderStart ==
  /\ storage \in [user : {AbsentItem, [kind |-> "garbage", text |-> JsonStringify(NoData)]}
                           \cup {[kind |-> "json", text |-> JsonStringify(u)] : u \in UserDatas},
                  access_token : {"none", "tokU", "tokA"}]
  /\ ui = [started |-> Restore(storage).started]
  /\ user = Restore(storage).user
  /\ isAuthenticated = Restore(storage).auth
  /\ session = NullId
  /\ route = "/" /\ page = "none"
  /\ loginPc = "idle" /\ logoutPc = "idle" /\ call = NoCall
  /\ srvTasks = [t \in TaskIds |-> "pending"]
  /\ shownFor = [k \in {"wrong_password", "unknown_email"} |-> "unset"]
  /\ last = [op |-> "start", after |-> "start", withData |-> FALSE, data |-> NoData,
             found |-> storage.user.kind]

\* login(token, userData), also called as login(null, userData) and login(token)
ProviderLogin(token, withData, data) ==
  /\ ui.started
  /\ ~withData => data = NoData
  /\ storage' = [access_token |-> IF token # "none" THEN token ELSE storage.access_token,
                 user |-> IF withData THEN [kind |-> "json", text |-> JsonStringify(data)]
                          ELSE storage.user]
  /\ user' = IF withData THEN [null |-> FALSE, data |-> data] ELSE user
  /\ isAuthenticated' = TRUE
  /\ last' = [op |-> "login", after |-> "login", withData |-> withData, data |-> data,
              found |-> "n/a"]
  /\ UNCHANGED <<route, page, ui, loginPc, logoutPc, call, session, srvTasks, shownFor>>

\* logout(), completed: the finally block
ProviderLogout ==
  /\ ui.started
  /\ storage' = [user |-> AbsentItem, access_token |-> "none"]
  /\ user' = [null |-> TRUE, data |-> NoData]
  /\ isAuthenticated' = FALSE
  /\ last' = [op |-> "logout", after |-> "logout", withData |-> FALSE, data |-> NoData,
              found |-> "n/a"]
  /\ UNCHANGED <<route, page, ui, loginPc, logoutPc, call, session, srvTasks, shownFor>>

\* the page is loaded again: the provider starts from localStorage
ProviderReload ==
  /\ ui' = [started |-> Restore(storage).started]
  /\ user' = Restore(storage).user
  /\ isAuthenticated' = Restore(storage).auth
  /\ last' = [last EXCEPT !.op = "reload", !.found = storage.user.kind]
  /\ UNCHANGED <<storage, route, page, loginPc, logoutPc, call, session, srvTasks,
                 shownFor>>

ProviderNext ==
  \/ \E token \in {"none", "tokU", "tokA"}, withData \in BOOLEAN, data \in UserDatas \cup {NoData} :
       ProviderLogin(token, withData, data)
  \/ ProviderLogout
  \/ ProviderReload

ProviderSpec == ProviderStart /\ [][ProviderNext]_vars

\* ================================================================ the claims
AdminRoutes == {"/admin", "/admin/dashboard", "/admin/tasks"}

\* the page-level calls: statistics and list of the dashboard page, list of the
\* tasks page, statistics of the admin dashboard
PageCalls == {"DashboardStats", "DashboardTasks", "TasksLoaded", "AdminDashboardLoaded"}

\* C1: when the dashboard's task-list request was answered 401 and the client
\* still holds a cached identity, the /login route it was sent to shows the
\* login page and does not redirect away.
C1_RestsAtLogin ==
  (last.op = "DashboardTasks" /\ last.status = 401 /\ user.present)
    => (route = "/login" /\ Render("/login", isAuthenticated, user) = Show("LoginPage"))

\* C2: every page-level call answered 401 ends with the client at /login.
C2_Uniform401 ==
  (last.op \in PageCalls /\ last.status = 401) => route = "/login"

\* C3: after a status change failed with a non-401 error, the tasks page shows
\* an error and is not in its loading state.
C3_FailureLeavesList ==
  (last.op = "StatusChanged" /\ last.status = 500 /\ page = "TasksPage")
    => (~ui.tp.loading /\ ui.tp.error # "")

\* C4: when logout() has completed, whether the request succeeded or was
\* rejected and whether or not a session was active when it was called, user is
\* null, isAuthenticated is false and local storage holds neither entry.
C4_LogoutClears ==
  (last.op \in {"LogoutFinish", "LogoutFinish:noSession"})
    => (user = NoUser /\ ~isAuthenticated /\ storage = EmptyStorage)

C4_Witness ==
  /\ last.op = "LogoutFinish:noSession" /\ last.status = 500
  /\ user = NoUser /\ storage = EmptyStorage

\* C5: the errors the login page showed for a wrong password and for an unknown
\* email are the same.
C5_SameError ==
  (shownFor["wrong_password"] # "unset" /\ shownFor["unknown_email"] # "unset")
    => shownFor["wrong_password"] = shownFor["unknown_email"]

\* C6 as stated: with a cached role other than admin no admin page is rendered,
\* no request goes to an admin endpoint and every admin route redirects to
\* /dashboard.
C6_NoAdminForOthers ==
  (user.present /\ user.role # "admin")
    => /\ page \notin AdminPages
       /\ last.req.ep \notin AdminEndpoints
       /\ \A r \in AdminRoutes : Render(r, isAuthenticated, user) = Navigate("/dashboard")

\* C6 amended: with a cached role other than admin no admin page is rendered,
\* every admin route redirects to /dashboard and no handler started under that
\* role sends an admin request; the one admin request that can still go out is
\* the refresh that follows a create submitted from the admin dashboard's modal
\* while the role was admin.
C6_NoAdminStartedByOthers ==
  (user.present /\ user.role # "admin")
    => /\ page \notin AdminPages
       /\ last.req.ep \in AdminEndpoints => last.op = "ModalCreated"
       /\ \A r \in AdminRoutes : Render(r, isAuthenticated, user) = Navigate("/dashboard")

C6_Witness ==
  /\ user.present /\ user.role = "user"
  /\ last.op = "ModalSubmit" /\ last.req.ep = "POST /task/"

\* C7 as stated: while isAuthenticated is false no protected page is rendered,
\* every protected route redirects to /login and no task request is sent.
C7_NothingWhileLoggedOut ==
  /\ ~isAuthenticated
       => /\ page \notin ProtectedPages
          /\ \A r \in ProtectedRoutes : Render(r, isAuthenticated, user) = Navigate("/login")
  /\ last.req.ep \in TaskEndpoints => last.req.auth

\* C7 amended: while isAuthenticated is false no protected page is rendered and
\* every protected route redirects to /login; a task request sent then is never
\* the start of a load or of a submission, only the next request of a load or
\* submission that began while authenticated.
C7_NothingStartsWhileLoggedOut ==
  /\ ~isAuthenticated
       => /\ page \notin ProtectedPages
          /\ \A r \in ProtectedRoutes : Render(r, isAuthenticated, user) = Navigate("/login")
  /\ (last.req.ep \in TaskEndpoints /\ ~last.req.auth)
       => last.op \in {"DashboardStats", "ModalCreated"}

C7_Witness ==
  /\ ~isAuthenticated /\ route \in ProtectedRoutes /\ page = "none"
  /\ Render(route, isAuthenticated, user) = Navigate("/login")
  /\ last.op = "Visit"

\* C8: an admin whose listing page finished loading against a server that
\* answers sees no error, and the list came from the admin listing.
C8_AdminSeesAll ==
  /\ (page = "TasksPage" /\ user.role = "admin" /\ ~ui.tp.loading /\ credValid
        /\ last.op \in {"TasksMount:threw", "TasksLoaded"} /\ last.status \in {0, 200})
       => (ui.tp.error = "" /\ ui.tp.listed = "admin")
  /\ (page = "AdminTaskList" /\ last.op = "AdminTaskListLoaded" /\ last.status = 200)
       => ui.atl.listed = "admin"

\* C9: after a successful login the cached role is the role of the account the
\* server logged in.
C9_RoleFromServer ==
  (last.op \in {"LoginOk", "LoginOk:fallback"}) => user.role = RoleOf(session)

\* C10: a create request in which no primary assignee was chosen carries the id
\* of the logged-in creator as assignee_id.
C10_DefaultAssignee ==
  (last.body.via # "none" /\ ~last.body.chosen /\ last.body.creator # NullId)
    => last.body.assignee_id = last.body.creator


\* C13: on the loaded task list every task can be moved to every other status:
\* the status change (t, s2) is offered for every listed task t and every status
\* s2 other than its current one, a completed task included.
C13_AnyToAny ==
  (page = "TasksPage" /\ ~ui.tp.loading /\ call = NoCall)
    => \A t \in DOMAIN ui.tp.tasks :
         \A s2 \in Status \ {ui.tp.tasks[t]} : ENABLED StatusChange(t, s2)

\* C15: when the statistics request of a dashboard failed, the page has the
\* fallback structure with every counter zero, is no longer loading once its
\* load ended, and the user dashboard still sent its task-list request.
C15_ZeroedFallback ==
  /\ (last.op = "DashboardStats" /\ last.status # 200)
       => /\ last.req.ep = "GET /task/assignee/tasks"
          /\ page = "DashboardPage"
                => /\ ui.dash.dashboardData = "default"
                   /\ \A c \in DOMAIN FallbackCounters(page) : FallbackCounters(page)[c] = 0
  /\ (last.op = "DashboardTasks" /\ page = "DashboardPage") => ~ui.dash.loading
  /\ (last.op = "AdminDashboardLoaded" /\ last.status # 200 /\ page = "AdminDashboard")
       => /\ ~ui.ad.isLoading
          /\ ui.ad.dashboardData = "default"
          /\ \A c \in DOMAIN FallbackCounters(page) : FallbackCounters(page)[c] = 0

\* C18: a successful login leaves the client on the dashboard of the role it
\* cached from the response (/admin/dashboard for admin, /dashboard otherwise),
\* which renders that dashboard; and while authenticated the routes /, /login
\* and any unknown path redirect to that same dashboard.
C18_LandsOnRoleDashboard ==
  /\ (last.op \in {"LoginOk", "LoginOk:fallback"})
       => /\ route = (IF user.role = "admin" THEN "/admin/dashboard" ELSE "/dashboard")
          /\ Render(route, isAuthenticated, user)
               = Show(IF user.role = "admin" THEN "AdminDashboard" ELSE "DashboardPage")
  /\ isAuthenticated
       => \A r \in {"/", "/login", "/unknown"} :
            Render(r, isAuthenticated, user)
              = Navigate(IF user.role = "admin" THEN "/admin/dashboard" ELSE "/dashboard")

C18_Witness ==
  /\ last.op = "LoginOk" /\ user.role = "admin" /\ route = "/admin/dashboard"
  /\ Render("/login", isAuthenticated, user) = Navigate("/admin/dashboard")

\* C11: every create-task request with a non-empty assignee_ids has its
\* assignee_id among them.
C11_PrimaryAmongAdditional ==
  (last.op = "SubmitCreate" /\ last.body.assignee_ids # {})
    => last.body.assignee_id \in last.body.assignee_ids

\* C12: no request that creates a task or sets a task's title carries the
\* empty string as title.
C12_TitleNeverEmpty ==
  (last.ep \in {"POST /task/", "POST /admin/task", "PUT /task/task_title/:id",
                "PUT /task/:id"})
    => last.body.title # ""

\* C14: after the user dashboard loaded its tasks, its stat cards (Total,
\* Completed, In Progress, Pending) are the counts over all the caller's tasks.
C14_CountersOverScope ==
  (last.op = "Listed" /\ last.host = "DashboardPage" /\ last.ok)
    => StatCards(ui.tasks) = StatCards(srvTasks)

\* C16: the response to getAllTask(p, asc, L) holds the tasks at offsets
\* (p-1)*L+1 .. (p-1)*L+L of the caller's qualifying tasks in the requested
\* order, as far as they exist, and reports the total number of qualifying tasks.
C16_Window ==
  (last.op = "Listed" /\ last.ok)
    => LET n == Len(srvTasks)
           first == (last.p - 1) * last.L
           at(k) == IF last.asc THEN srvTasks[k] ELSE srvTasks[n + 1 - k]
       IN  /\ last.total = n
           /\ Len(last.tasks) <= last.L
           /\ Len(last.tasks) = IF n - first > last.L THEN last.L
                                ELSE IF n > first THEN n - first ELSE 0
           /\ \A k \in 1..Len(last.tasks) : last.tasks[k] = at(first + k)

C16_Witness ==
  /\ last.op = "Listed" /\ last.ok /\ Len(srvTasks) = 12
  /\ last.p = 2 /\ last.L = 5 /\ Len(last.tasks) = 5 /\ last.total = 12

\* C17: a request sent after a login whose response carried a token, and before
\* the next logout, carries that login's token as bearer; a request sent while
\* logged out carries no Authorization header.
C17_BearerOfLastLogin ==
  /\ (last.op = "request" /\ last.login # NullId)
       => last.authorization = TokenOf(last.login)
  /\ (last.op = "request" /\ ~isAuthenticated) => last.authorization = "none"

C20_LastWriteWins ==
  (last.op = "status" /\ srvTasks.exists /\ Visible(last.caller, srvTasks))
    => /\ last.ok
       /\ DOMAIN last.body = {"status"}
       /\ srvTasks.status = last.body.status

C20_Witness ==
  /\ last.op = "status" /\ last.ok /\ last.raced
  /\ last.prev # last.body.status
  /\ srvTasks.status = last.body.status
  /\ call = {}

\* C21: when updateTaskTitle(id, X) has succeeded the details page shows X
\* without another load, and getTaskDetails(id) returns X unless a later title
\* write was stored before the answer came; when it has failed the page holds
\* the title it held before.
C21_TitleRoundTrip ==
  /\ last.op = "saved" => ui.task = last.X
  /\ (last.op = "saved" /\ ~last.raced) => srvTasks.title = last.X
  /\ last.op = "failed" => ui.task = last.before

C21_Witness ==
  /\ last.op = "saved" /\ ~last.raced
  /\ last.X = <<"a", "&", "b">>
  /\ last.before # last.X
  /\ ui.task = last.X /\ srvTasks.title = last.X

\* C21 as stated: whenever updateTaskTitle(id, X) has succeeded, the page shows X
\* and getTaskDetails(id) returns X, also when another save of the page was
\* stored in between.
C21_RoundTripAlways ==
  /\ last.op = "saved" => (ui.task = last.X /\ srvTasks.title = last.X)
  /\ last.op = "failed" => ui.task = last.before

\* C22: every status value a status-change request of the client carries is one
\* of pending, in_progress, completed.
C22_StatusInEnum ==
  \A r \in call : r.op = "status" => r.val \in Status

C23_TagsNormalised ==
  last.op = "SubmitCreate"
    => LET sent == last.tags
           entries == Split(sent.s)
       IN /\ ~sent.null
               => \A i \in 1..Len(entries) :
                    /\ entries[i] # << >>
                    /\ Head(entries[i]) # " "
                    /\ entries[i][Len(entries[i])] # " "
          /\ (\A i \in 1..Len(Split(last.input)) : TrimTag(Split(last.input)[i]) = << >>)
               => sent.null
          /\ ~sent.null
               => CreateTaskTags(FormTags("CreateTaskPage", sent.s)) = sent

\* C25: on the legacy list the current page is at least 1, and at most
\* totalPages whenever totalPages is at least 1, after any presses of Next and
\* Previous and any reloads.
C25_PageInRange ==
  page = "Tasks"
    => /\ ui.page >= 1
       /\ ui.totalPages >= 1 => ui.page <= ui.totalPages

\* C26: once a logout control was pressed the client gets to a state where it
\* is unauthenticated, user is null, local storage is cleared and the route is
\* /login or /, whether navigate ran before the logout request settled or after.
C26_LogoutLeadsToPublic ==
  (logoutPc # "idle")
    ~> (/\ logoutPc = "idle" /\ ~isAuthenticated /\ user = NoUser
        /\ storage = EmptyStorage /\ route \in {"/login", "/"})

C26_Witness ==
  /\ last.op = "LogoutFinish:detached"
  /\ ~isAuthenticated /\ user = NoUser /\ storage = EmptyStorage
  /\ route \in {"/dashboard", "/admin/dashboard"}

\* C27: in every state of the running provider, isAuthenticated implies that
\* user is an object, and isAuthenticated holds exactly when local storage has
\* the item 'user'; for login(token, userData), login(null, userData) and
\* login(token).
C27_AuthMeansUser ==
  ui.started
    => /\ isAuthenticated => ~user.null
       /\ isAuthenticated <=> storage.user.kind # "absent"

\* C28: a provider that starts again after login(token, userData) has user =
\* userData and isAuthenticated = true; one that starts again after a completed
\* logout has user = null and isAuthenticated = false.
C28_SessionRoundTrip ==
  /\ (last.op = "reload" /\ last.after = "login" /\ last.withData)
       => (ui.started /\ ~user.null /\ user.data = last.data /\ isAuthenticated)
  /\ (last.op = "reload" /\ last.after = "logout")
       => (ui.started /\ user.null /\ ~isAuthenticated)

C28_Witness ==
  /\ last.op = "reload" /\ last.after = "login" /\ last.withData
  /\ last.data.role = "admin"
  /\ ~user.null /\ user.data = last.data /\ isAuthenticated

\* C29: a provider that finds an item 'user' it cannot parse starts all the
\* same, with user = null and isAuthenticated = false, and removes the item.
C29_UnparsableStartsLoggedOut ==
  (last.op \in {"start", "reload"} /\ last.found = "garbage")
    => (ui.started /\ user.null /\ ~isAuthenticated /\ storage.user.kind = "absent")

====
